---------------------------- MODULE Spec2Model ----------------------------
(***************************************************************************)
(* Model of the sequential-bracket life cycle of smashz/MEXC:              *)
(*   TradingEngine.place_sequential_bracket_buy_order                      *)
(*   TradingEngine.monitor_positions                                       *)
(*   TradingEngine._monitor_sequential_bracket_position                    *)
(*   MexcClient.place_protective_orders_after_fill                         *)
(* together with the exchange (order statuses, the market price) as the   *)
(* environment.  A monitor tick is a coroutine: it is modelled as one      *)
(* action per stretch of code between two awaits, so that the exchange     *)
(* and the price can move while a tick is suspended in a request.          *)
(*                                                                         *)
(* Scope of Spec: the caller submits a bracket only while the registry is  *)
(* empty, so one bracket is live at a time.                                *)
(***************************************************************************)
EXTENDS Integers, Sequences, FiniteSets, TLC

VARIABLES
    positions,          \* self.positions: position_key -> position dict
    daily_order_count,  \* self.daily_order_count
    last_reset_date,    \* self.last_reset_date (0: the attribute does not exist)
    nextOrderId,        \* the exchange's next order id
    exOrders,           \* exchange: status of the live bracket's main / sl / tp order
    price,              \* exchange: last traded price of the symbol
    pc,                 \* where the monitor coroutine stands
    tk,                 \* the locals of the running tick
    trace,              \* what the running tick has done so far (observation)
    submitted,          \* order kinds ever submitted for the live bracket (observation)
    sells,              \* MARKET SELL requests submitted for the live bracket (observation)
    removed,            \* position keys that were deleted from the registry (observation)
    cancel,             \* the cancel_order calls since the last tick or placement (observation)
    submission,         \* the latest bracket submission (observation)
    clock,              \* the configured trading windows, the time of day, the gate's answer
    limiter,            \* the client's rate limiter, its callers and the requests sent
    request,            \* the logical requests of one client and how each ended
    fmt,                \* one call of format_quantity: its arguments and its answer
    cascade,            \* one place_simple_bracket_order call: its requests and their outcomes
    protective,         \* one place_protective_orders_after_fill call and the orders it placed
    batching,           \* the micro-batches _execute_micro_batch_selling builds for a quantity
    liquidation,        \* one run of the emergency stop-loss protocols and what the exchange took
    market,             \* "falling": the price stays under a stop it has reached, requests are answered
    overlap,            \* placement calls that run as tasks of one event loop, and the entries accepted per date
    unlock,             \* the symbol's orders of two brackets, and the unlock step of an emergency
    software            \* a bracket with bracket_monitoring, its main order and the tick that watches it

mainVars == <<positions, daily_order_count, last_reset_date, nextOrderId,
              exOrders, price, pc, tk, trace, submitted, sells, removed>>

otherVars == <<request, fmt, cascade, protective, batching, liquidation, market, overlap, unlock, software>>
\* the variables the engine, the gate, the clock and the limiter work on
engineSide == <<mainVars, cancel, submission, clock, limiter>>
\* every variable but one of those outside the engine
butRequest == <<engineSide, fmt, cascade, protective, batching, liquidation, market, overlap, unlock, software>>
butFmt == <<engineSide, request, cascade, protective, batching, liquidation, market, overlap, unlock, software>>
butCascade == <<engineSide, request, fmt, protective, batching, liquidation, market, overlap, unlock, software>>
butProtective == <<engineSide, request, fmt, cascade, batching, liquidation, market, overlap, unlock, software>>
butBatching == <<engineSide, request, fmt, cascade, protective, liquidation, market, overlap, unlock, software>>
butLiquidation == <<engineSide, request, fmt, cascade, protective, batching, market, overlap, unlock, software>>
butMarket == <<engineSide, request, fmt, cascade, protective, batching, liquidation, overlap, unlock, software>>
butOverlap == <<engineSide, request, fmt, cascade, protective, batching, liquidation, market, unlock, software>>
butUnlock == <<engineSide, request, fmt, cascade, protective, batching, liquidation, market, overlap, software>>
butSoftware == <<engineSide, request, fmt, cascade, protective, batching, liquidation, market, overlap, unlock>>
vars == <<mainVars, cancel, submission, clock, limiter, otherVars>>

engineVars == <<positions, daily_order_count, last_reset_date>>
exVars == <<exOrders, price>>

-----------------------------------------------------------------------------
(* Bounds of the model *)

\* the price grid is 1..MaxPrice; a ticker answer of 0 stands for "no price"
MaxPrice == 4
\* cap on the MARKET SELL requests counted for one bracket
MaxSells == 2
\* the dates datetime.now().date() runs through are 1..MaxDay
MaxDay == 2
\* the brackets the exchange accepts in one run
MaxBrackets == 2
\* cap on the cancel_order calls counted in a row for one order
MaxCancels == 2
\* config.max_orders_per_day (config.py allows 1..100)
max_orders_per_day == 1

\* the prices a caller submits: one entry price, stop-loss and take-profit
\* prices on both sides of the validation
EntryPrices == {3}
StopPrices == {2, 3}
TargetPrices == {3, 4}

None == "None"
Terminal == {"CANCELED", "REJECTED", "EXPIRED"}
OrderStatus == {"NONE", "NEW", "PARTIALLY_FILLED", "FILLED"} \cup Terminal


-----------------------------------------------------------------------------
(* The position registry *)

EmptyMap == [k \in {} |-> None]

Remove(f, k) == [x \in DOMAIN f \ {k} |-> f[x]]

Put(f, k, v) == [x \in DOMAIN f \cup {k} |-> IF x = k THEN v ELSE f[x]]

\* the registry key of a sequential bracket: f"seq_{symbol}_{orderId}"
PositionKey(order_id) == "seq_SYM_" \o ToString(order_id)

\* the position dict that place_sequential_bracket_buy_order registers
NewPosition(oid, entry, sl, tp) ==
    [order_id |-> oid,
     entry_price |-> entry,
     stop_loss_price |-> sl,
     take_profit_price |-> tp,
     status |-> "waiting_for_fill",
     protective_orders_placed |-> FALSE,
     stop_loss_order_id |-> None,
     take_profit_order_id |-> None,
     software_stop_loss |-> FALSE]

NoOrders == [main |-> "NONE", sl |-> "NONE", tp |-> "NONE"]

\* no cancel_order call has been made
NoCancel == [order_id |-> 0, status |-> None, calls |-> 0]

\* no bracket has been submitted
NoSubmission ==
    [op |-> None, open |-> FALSE, exhausted |-> FALSE, quota |-> None, before |-> 0,
     entry_price |-> 0, stop_loss_price |-> 0, take_profit_price |-> 0,
     sent |-> FALSE, accepted |-> FALSE]

\* the locals of _monitor_sequential_bracket_position when no tick runs
NoTick ==
    [key |-> None, status |-> None, sl_id |-> None, tp_id |-> None, sw |-> FALSE,
     cp |-> 0, closed |-> FALSE, res_sl |-> None, res_sw |-> FALSE]

-----------------------------------------------------------------------------
(* Initial state: the engine as TradingEngine.__init__ leaves it.  __init__ *)
(* does not create last_reset_date (0 here); the only assignment to it is  *)
(* in the block at the end of _fetch_historical_data.  Both engines are    *)
(* initial states: the one without the attribute and the one on which that *)
(* block has run.                                                          *)

\* no window configured, midnight, is_trading_time not asked
NoClock == [windows |-> <<>>, now |-> 0, asked |-> FALSE, answer |-> FALSE]

\* the rate limiter of a new client with no caller: _last_request_time = 0
NoLimiter ==
    [time |-> 0, last |-> 0, holder |-> None, at |-> << >>, wake |-> << >>, starts |-> <<>>]

\* a client that has made no request
NoRequest == [client |-> "mexc_client", at |-> "idle", first |-> 0, sends |-> 0,
              backoffs |-> 0, log |-> <<>>]

\* format_quantity has not been called
NoFormat == [quantity |-> 0, step_size |-> "1", symbol |-> "UNKNOWN", done |-> FALSE,
             result |-> 0]

\* place_bracket_limit_order has not been called
NoCascade ==
    [at |-> "idle", oco |-> None, oco_tp |-> None, entry |-> None, sl |-> None,
     tp |-> None, result |-> None, engine |-> None, history |-> <<>>]

\* place_protective_orders_after_fill has not been called
NoProtective ==
    [symbol |-> "XRPUSDT", quantity |-> 0, done |-> FALSE, formatted_quantity |-> 0,
     software_stop_loss |-> FALSE, orders |-> {}]

\* _execute_micro_batch_selling has not built its batches
NoBatching ==
    [quantity |-> 0, step_size |-> "0.1", at |-> "idle", i |-> 1,
     remaining_quantity |-> 0, micro_batches |-> <<>>]

\* no emergency liquidation is under way
NoLiquidation ==
    [quantity |-> 0, free |-> 0, at |-> "idle", micro_batches |-> <<>>, i |-> 1,
     total_sold |-> 0, sold |-> 0, ladder_quantity |-> 0, level |-> 0, placed |-> 0,
     micro_batch_success |-> FALSE, discount_success |-> FALSE, retry_ran |-> FALSE,
     result |-> FALSE]

\* the market and the exchange behave as they please
NoMarket == "free"

\* no placement call is under way; the daily counters as a started engine has them
NoOverlap ==
    [daily_order_count |-> 0, last_reset_date |-> 1, calls |-> 0,
     at |-> [c \in {"c1", "c2"} |-> "idle"],
     date |-> [c \in {"c1", "c2"} |-> 0],
     accepted |-> [d \in 1..MaxDay |-> 0]]

\* no emergency unlock is under way and the symbol's order book is empty
NoUnlock == [of |-> None, at |-> "idle", orders |-> << >>, todo |-> {}, cancelled |-> {}]

\* no software-monitored bracket is registered
NoSoftware ==
    [registered |-> FALSE, main |-> "NONE", at |-> "idle", status |-> None,
     exit_type |-> None, sold |-> <<>>]

\* the parts of the program outside the specification at hand, at rest
OtherInit ==
    /\ request = NoRequest
    /\ fmt = NoFormat
    /\ cascade = NoCascade
    /\ protective = NoProtective
    /\ batching = NoBatching
    /\ liquidation = NoLiquidation
    /\ market = NoMarket
    /\ overlap = NoOverlap
    /\ unlock = NoUnlock
    /\ software = NoSoftware

\* the engine after construction
EngineInit ==
    /\ positions = EmptyMap
    /\ daily_order_count = 0
    /\ last_reset_date \in {0, 1}
    /\ nextOrderId = 1
    /\ exOrders = NoOrders
    /\ price \in 1..MaxPrice
    /\ pc = "idle"
    /\ tk = NoTick
    /\ trace = <<>>
    /\ submitted = {}
    /\ sells = 0
    /\ removed = {}
    /\ cancel = NoCancel
    /\ submission = NoSubmission

Init ==
    /\ EngineInit
    /\ clock = NoClock
    /\ limiter = NoLimiter
    /\ OtherInit

\* everything at rest but one of the variables outside the engine
quietButRequest ==
    /\ EngineInit /\ price = 1 /\ last_reset_date = 0
    /\ clock = NoClock /\ limiter = NoLimiter
    /\ fmt = NoFormat
    /\ cascade = NoCascade
    /\ protective = NoProtective
    /\ batching = NoBatching
    /\ liquidation = NoLiquidation
    /\ market = NoMarket
    /\ overlap = NoOverlap
    /\ unlock = NoUnlock
    /\ software = NoSoftware

quietButFmt ==
    /\ EngineInit /\ price = 1 /\ last_reset_date = 0
    /\ clock = NoClock /\ limiter = NoLimiter
    /\ request = NoRequest
    /\ cascade = NoCascade
    /\ protective = NoProtective
    /\ batching = NoBatching
    /\ liquidation = NoLiquidation
    /\ market = NoMarket
    /\ overlap = NoOverlap
    /\ unlock = NoUnlock
    /\ software = NoSoftware

quietButCascade ==
    /\ EngineInit /\ price = 1 /\ last_reset_date = 0
    /\ clock = NoClock /\ limiter = NoLimiter
    /\ request = NoRequest
    /\ fmt = NoFormat
    /\ protective = NoProtective
    /\ batching = NoBatching
    /\ liquidation = NoLiquidation
    /\ market = NoMarket
    /\ overlap = NoOverlap
    /\ unlock = NoUnlock
    /\ software = NoSoftware

quietButProtective ==
    /\ EngineInit /\ price = 1 /\ last_reset_date = 0
    /\ clock = NoClock /\ limiter = NoLimiter
    /\ request = NoRequest
    /\ fmt = NoFormat
    /\ cascade = NoCascade
    /\ batching = NoBatching
    /\ liquidation = NoLiquidation
    /\ market = NoMarket
    /\ overlap = NoOverlap
    /\ unlock = NoUnlock
    /\ software = NoSoftware

quietButBatching ==
    /\ EngineInit /\ price = 1 /\ last_reset_date = 0
    /\ clock = NoClock /\ limiter = NoLimiter
    /\ request = NoRequest
    /\ fmt = NoFormat
    /\ cascade = NoCascade
    /\ protective = NoProtective
    /\ liquidation = NoLiquidation
    /\ market = NoMarket
    /\ overlap = NoOverlap
    /\ unlock = NoUnlock
    /\ software = NoSoftware

quietButLiquidation ==
    /\ EngineInit /\ price = 1 /\ last_reset_date = 0
    /\ clock = NoClock /\ limiter = NoLimiter
    /\ request = NoRequest
    /\ fmt = NoFormat
    /\ cascade = NoCascade
    /\ protective = NoProtective
    /\ batching = NoBatching
    /\ market = NoMarket
    /\ overlap = NoOverlap
    /\ unlock = NoUnlock
    /\ software = NoSoftware

quietButMarket ==
    /\ EngineInit /\ price = 1 /\ last_reset_date = 0
    /\ clock = NoClock /\ limiter = NoLimiter
    /\ request = NoRequest
    /\ fmt = NoFormat
    /\ cascade = NoCascade
    /\ protective = NoProtective
    /\ batching = NoBatching
    /\ liquidation = NoLiquidation
    /\ overlap = NoOverlap
    /\ unlock = NoUnlock
    /\ software = NoSoftware

quietButOverlap ==
    /\ EngineInit /\ price = 1 /\ last_reset_date = 0
    /\ clock = NoClock /\ limiter = NoLimiter
    /\ request = NoRequest
    /\ fmt = NoFormat
    /\ cascade = NoCascade
    /\ protective = NoProtective
    /\ batching = NoBatching
    /\ liquidation = NoLiquidation
    /\ market = NoMarket
    /\ unlock = NoUnlock
    /\ software = NoSoftware

quietButUnlock ==
    /\ EngineInit /\ price = 1 /\ last_reset_date = 0
    /\ clock = NoClock /\ limiter = NoLimiter
    /\ request = NoRequest
    /\ fmt = NoFormat
    /\ cascade = NoCascade
    /\ protective = NoProtective
    /\ batching = NoBatching
    /\ liquidation = NoLiquidation
    /\ market = NoMarket
    /\ overlap = NoOverlap
    /\ software = NoSoftware

quietButSoftware ==
    /\ EngineInit /\ price = 1 /\ last_reset_date = 0
    /\ clock = NoClock /\ limiter = NoLimiter
    /\ request = NoRequest
    /\ fmt = NoFormat
    /\ cascade = NoCascade
    /\ protective = NoProtective
    /\ batching = NoBatching
    /\ liquidation = NoLiquidation
    /\ market = NoMarket
    /\ overlap = NoOverlap
    /\ unlock = NoUnlock


-----------------------------------------------------------------------------
(* Daily quota *)

\* _reset_daily_counters with datetime.now().date() = today: the count
\* a quota check that never resets the counter
ResetCount_Never(today) == daily_order_count

\* a price validation that checks the stop side only
PricesValid_StopOnly(entry, sl, tp) == ~(sl >= entry)

\* after the reset check
ResetCount(today) == IF today # last_reset_date THEN 0 ELSE daily_order_count

\* _can_place_order, once _reset_daily_counters has run
CanPlaceOrder(today) == ResetCount(today) < max_orders_per_day

\* the price validation of place_sequential_bracket_buy_order
PricesValid(entry, sl, tp) == ~(sl >= entry) /\ ~(tp <= entry)

\* what the two gates at the top of a placement answer: the trading window
\* first, then the quota ("raised": _can_place_order raised AttributeError)
Gate(open, today) ==
    IF ~open THEN "unchecked"
    ELSE IF last_reset_date = 0 THEN "raised"
    ELSE IF CanPlaceOrder(today) THEN "ok" ELSE "exhausted"

\* the record of one submission: open and exhausted are the facts at the
\* time of the call (the window is open; the orders counted for the call's
\* date have reached the quota), quota is what the operation's own gates
\* answered, sent and accepted tell whether the entry order went to the
\* exchange and whether the exchange took it
Submission(op, open, today, quota, entry_price, sl, tp, sent, accepted) ==
    [op |-> op, open |-> open, exhausted |-> ~CanPlaceOrder(today), quota |-> quota,
     before |-> daily_order_count,
     entry_price |-> entry_price, stop_loss_price |-> sl, take_profit_price |-> tp,
     sent |-> sent, accepted |-> accepted]

(* place_sequential_bracket_buy_order(entry, sl, tp).  The inputs of the   *)
(* call besides its arguments: open is what is_trading_time answers, today *)
(* what the clock reads (it does not run backwards), accept whether the    *)
(* exchange takes the LIMIT BUY.  A return of None and a raised exception  *)
(* both leave the registry alone; the daily reset done by the quota check  *)
(* stays.  Without last_reset_date the quota check raises AttributeError.  *)
(* dry_run is self.config.dry_run as the call reads it: reload_config may  *)
(* replace the config between any two reads.                               *)
SequentialBracketBuy(entry, sl, tp, open, today, dry_run, accept) ==
    /\ DOMAIN positions = {}
    /\ nextOrderId <= MaxBrackets
    /\ today >= last_reset_date
    /\ UNCHANGED <<price, pc, tk, trace, removed, clock, limiter, otherVars>>
    /\ cancel' = NoCancel
    /\ IF ~open \/ last_reset_date = 0
       THEN UNCHANGED <<engineVars, nextOrderId, exOrders, submitted, sells>>
       ELSE /\ last_reset_date' = today
            /\ IF CanPlaceOrder(today) /\ PricesValid(entry, sl, tp) /\ ~dry_run /\ accept
               THEN /\ daily_order_count' = ResetCount(today) + 1
                    /\ positions' = Put(positions, PositionKey(nextOrderId),
                                        NewPosition(nextOrderId, entry, sl, tp))
                    /\ nextOrderId' = nextOrderId + 1
                    /\ exOrders' = [NoOrders EXCEPT !.main = "NEW"]
                    /\ submitted' = {}
                    /\ sells' = 0
               ELSE /\ daily_order_count' = ResetCount(today)
                    /\ UNCHANGED <<positions, nextOrderId, exOrders, submitted, sells>>

\* the placement as the monitor's specification takes it: nothing is recorded
PlaceSequentialBracket(entry, sl, tp, open, today, dry_run, accept) ==
    /\ SequentialBracketBuy(entry, sl, tp, open, today, dry_run, accept)
    /\ UNCHANGED <<submission, clock, limiter, otherVars>>

-----------------------------------------------------------------------------
(* The three bracket-placing operations, each recording its submission *)

\* variant: dry_run is not looked at
Sends_Live(entry, sl, tp, open, today, dry_run) ==
    Gate(open, today) = "ok" /\ PricesValid(entry, sl, tp)

\* whether the gated operations send their entry order
Sends(entry, sl, tp, open, today, dry_run) ==
    Gate(open, today) = "ok" /\ PricesValid(entry, sl, tp) /\ ~dry_run

\* place_sequential_bracket_buy_order, recorded
SubmitSequentialBracket(entry, sl, tp, open, today, dry_run, accept) ==
    /\ SequentialBracketBuy(entry, sl, tp, open, today, dry_run, accept)
    /\ LET sent == Sends(entry, sl, tp, open, today, dry_run) IN
       submission' = Submission("sequential", open, today, Gate(open, today),
                                entry, sl, tp, sent, sent /\ accept)

(* place_simple_bracket_order(entry, sl, tp): the same two gates and the   *)
(* same validation (ValueError); dry_run returns a made-up result and      *)
(* counts nothing; otherwise client.place_bracket_limit_order sends the    *)
(* entry (OCO first, then a plain LIMIT) and the order is counted when the *)
(* client returns a result; an exception is re-raised.  Nothing is         *)
(* registered: the exchange is left to run the exits.                      *)
PlaceSimpleBracket(entry, sl, tp, open, today, dry_run, accept) ==
    /\ pc = "idle"
    /\ today >= last_reset_date
    /\ LET sent == Sends(entry, sl, tp, open, today, dry_run) IN
       /\ submission' = Submission("simple", open, today, Gate(open, today),
                                   entry, sl, tp, sent, sent /\ accept)
       /\ IF ~open \/ last_reset_date = 0
          THEN UNCHANGED engineVars
          ELSE /\ last_reset_date' = today
               /\ daily_order_count' = ResetCount(today) + (IF sent /\ accept THEN 1 ELSE 0)
               /\ UNCHANGED positions
    /\ UNCHANGED <<nextOrderId, exOrders, price, pc, tk, trace, submitted, sells, removed,
                   cancel, clock, limiter, otherVars>>

\* the key place_bracket_buy_order registers a bracket under
BracketKey(order_id) == "SYM_" \o ToString(order_id)

\* MexcClient.place_bracket_order: the exit prices from the percentages
PctStopLoss(p, stop_loss_percentage) == (p * (100 - stop_loss_percentage)) \div 100
PctTakeProfit(p, take_profit_percentage) == (p * (100 + take_profit_percentage)) \div 100

\* the position place_bracket_buy_order registers for a software bracket
PctPosition(order_id, p, sl_pct, tp_pct) ==
    [order_id |-> order_id, entry_price |-> p,
     stop_loss_price |-> PctStopLoss(p, sl_pct),
     take_profit_price |-> PctTakeProfit(p, tp_pct),
     bracket_monitoring |-> TRUE]

(* place_bracket_buy_order(price, stop_loss_percentage,                    *)
(* take_profit_percentage).  It reads neither the trading window nor the   *)
(* quota and counts nothing; open and today are what the clock would have  *)
(* answered.  dry_run returns before the client is called.  The client     *)
(* computes the exit prices and sends the entry as an integrated order,    *)
(* then as an OCO, then as a plain LIMIT (bracket_type "software"), and    *)
(* raises when all three fail; the engine registers a software bracket and *)
(* answers None on an exception.                                           *)
PlaceBracketBuy(p, sl_pct, tp_pct, open, today, dry_run, bracket_type) ==
    /\ pc = "idle"
    /\ today >= last_reset_date
    /\ submission' = Submission("percentage", open, today, "unchecked", p,
                                PctStopLoss(p, sl_pct), PctTakeProfit(p, tp_pct),
                                ~dry_run, ~dry_run /\ bracket_type # "failed")
    /\ IF ~dry_run /\ bracket_type = "software"
       THEN /\ DOMAIN positions = {}
            /\ nextOrderId <= MaxBrackets
            /\ positions' = Put(positions, BracketKey(nextOrderId),
                                PctPosition(nextOrderId, p, sl_pct, tp_pct))
            /\ nextOrderId' = nextOrderId + 1
       ELSE UNCHANGED <<positions, nextOrderId>>
    /\ UNCHANGED <<daily_order_count, last_reset_date, exOrders, price, pc, tk, trace,
                   submitted, sells, removed, cancel, clock, limiter, otherVars>>

-----------------------------------------------------------------------------
(* The environment: the market and the exchange's order book *)

PriceMove ==
    /\ \E p \in 1..MaxPrice : p # price /\ price' = p
    /\ UNCHANGED <<engineVars, nextOrderId, exOrders, pc, tk, trace,
                   submitted, sells, removed, cancel, submission, clock, limiter, otherVars>>

\* the exchange moves an open order on: a (partial) fill, or a cancel,
\* reject or expiry of its own.  Only the orders of the registered bracket
\* are followed: nothing reads the others.
ExOrderMoves(o, s) ==
    /\ DOMAIN positions # {}
    /\ exOrders[o] \in {"NEW", "PARTIALLY_FILLED"}
    /\ s \in {"PARTIALLY_FILLED", "FILLED"} \cup Terminal
    /\ s # exOrders[o]
    /\ s = "PARTIALLY_FILLED" => o = "main"
    /\ exOrders' = [exOrders EXCEPT ![o] = s]
    /\ UNCHANGED <<engineVars, nextOrderId, price, pc, tk, trace,
                   submitted, sells, removed, cancel, submission, clock, limiter, otherVars>>


-----------------------------------------------------------------------------
(* monitor_positions: the loop takes a snapshot of the registry, runs one  *)
(* tick per position, then sleeps 0.1 s.                                   *)

Pos == positions[tk.key]

Log(e) == trace' = Append(trace, e)

\* the tick leaves the registry and the observations of orders alone
TickKeeps ==
    UNCHANGED <<daily_order_count, last_reset_date, nextOrderId, price, cancel, submission, clock, limiter, otherVars>>

\* where a tick goes after reading position['status']
StatusBranch(status) ==
    CASE status = "waiting_for_fill" -> "w_status"
      [] status = "protected" -> "p_price"
      [] OTHER -> "done"

TickStart(k) ==
    /\ pc = "idle"
    /\ k \in DOMAIN positions
    /\ sells < MaxSells
    /\ pc' = StatusBranch(positions[k].status)
    /\ tk' = [NoTick EXCEPT !.key = k,
                            !.status = positions[k].status,
                            !.sl_id = positions[k].stop_loss_order_id,
                            !.tp_id = positions[k].take_profit_order_id,
                            !.sw = positions[k].software_stop_loss]
    /\ trace' = IF exOrders.tp = "FILLED" THEN <<"TP_FILLED_AT_START">> ELSE <<>>
    /\ UNCHANGED <<daily_order_count, last_reset_date, nextOrderId, price>>
    /\ cancel' = NoCancel
    /\ UNCHANGED <<submission, clock, limiter, otherVars>>
    /\ UNCHANGED <<positions, exOrders, submitted, sells, removed>>

\* the tick returns to the loop.  Once the bracket is gone from the registry
\* its exchange orders and the observations about it are no longer followed.
TickReturn ==
    /\ pc = "done"
    /\ pc' = "idle"
    /\ tk' = NoTick
    /\ trace' = <<>>
    /\ TickKeeps
    /\ UNCHANGED <<positions, removed>>
    /\ IF DOMAIN positions = {}
       THEN exOrders' = NoOrders /\ submitted' = {} /\ sells' = 0
       ELSE UNCHANGED <<exOrders, submitted, sells>>

-----------------------------------------------------------------------------
(* Step 1: status == 'waiting_for_fill' *)

\* the dry-run arm of the FILLED branch
DryRunProtected(p) ==
    [p EXCEPT !.protective_orders_placed = TRUE,
              !.status = "protected",
              !.software_stop_loss = TRUE]

\* variant: a partial fill is taken for a fill, as _monitor_bracket_position
\* does for its own brackets
MainFilled_Partial(order_state) == order_state \in {"FILLED", "PARTIALLY_FILLED"}

\* the test that takes the FILLED branch
MainFilled(order_state) == order_state = "FILLED"

\* variant: only a cancel removes the bracket
MainDead_CanceledOnly(order_state) == order_state = "CANCELED"

\* the test that takes the removal branch
MainDead(order_state) == order_state \in {"CANCELED", "REJECTED", "EXPIRED"}

(* get_order_status(main) answers (or raises), and the code up to the next *)
(* await runs; dry_run is self.config.dry_run as read in the FILLED branch.*)
W_Status(answers, dry_run) ==
    /\ pc = "w_status"
    /\ TickKeeps
    /\ UNCHANGED <<exOrders, submitted, sells, tk>>
    /\ IF ~answers
       THEN /\ trace' = trace
            /\ pc' = "done"
            /\ UNCHANGED <<positions, removed>>
       ELSE LET order_state == exOrders.main
                seen == "MAIN_SEEN_" \o order_state IN
            CASE MainFilled(order_state) ->
                   /\ removed' = removed
                   /\ IF ~dry_run
                      THEN /\ positions' = [positions EXCEPT ![tk.key].status = "main_filled"]
                           /\ trace' = trace \o <<seen, "main_filled">>
                           /\ pc' = "a_sl"
                      ELSE /\ positions' = [positions EXCEPT ![tk.key] = DryRunProtected(@)]
                           /\ trace' = trace \o <<seen, "main_filled", "protected">>
                           /\ pc' = "done"
              [] MainDead(order_state) ->
                   /\ positions' = Remove(positions, tk.key)
                   /\ removed' = removed \cup {tk.key}
                   /\ trace' = trace \o <<seen, "DEL_REJECTED">>
                   /\ pc' = "done"
              [] OTHER ->
                   /\ trace' = trace \o <<seen>>
                   /\ pc' = "done"
                   /\ UNCHANGED <<positions, removed>>

-----------------------------------------------------------------------------
(* MexcClient.place_protective_orders_after_fill, called from the FILLED   *)
(* branch.  res_sl / res_sw are results['stop_loss_order'] and             *)
(* results['software_stop_loss']: "order" is an exchange answer carrying   *)
(* an orderId, "software" the SOFTWARE_MONITORING dict.                    *)

\* the STOP_LOSS_LIMIT request; r is the exchange's answer
A_StopLossLimit(r) ==
    /\ pc = "a_sl"
    /\ r \in {"accept", "invalid type", "other error"}
    /\ TickKeeps
    /\ UNCHANGED <<positions, sells, removed>>
    /\ submitted' = submitted \cup {"SL"}
    /\ Log("REQ_STOP_LOSS_LIMIT")
    /\ CASE r = "accept" ->
              /\ exOrders' = [exOrders EXCEPT !.sl = "NEW"]
              /\ tk' = [tk EXCEPT !.res_sl = "order"]
              /\ pc' = "a_tp_price"
         [] r = "invalid type" ->
              /\ UNCHANGED <<exOrders, tk>>
              /\ pc' = "a_sl_simple"
         [] OTHER ->
              /\ UNCHANGED exOrders
              /\ tk' = [tk EXCEPT !.res_sl = "software", !.res_sw = TRUE]
              /\ pc' = "a_tp_price"

\* variant: a refused STOP_LOSS request is not caught in the client, so the
\* engine's handler logs it and the tick ends
A_StopLossSimple_Raises(accept) ==
    /\ pc = "a_sl_simple"
    /\ TickKeeps
    /\ UNCHANGED <<positions, sells, removed>>
    /\ submitted' = submitted \cup {"SL"}
    /\ Log("REQ_STOP_LOSS")
    /\ IF accept
       THEN /\ exOrders' = [exOrders EXCEPT !.sl = "NEW"]
            /\ tk' = [tk EXCEPT !.res_sl = "order"]
            /\ pc' = "a_tp_price"
       ELSE /\ UNCHANGED <<exOrders, tk>>
            /\ pc' = "done"

\* the simpler STOP_LOSS request after "invalid type"
A_StopLossSimple(accept) ==
    /\ pc = "a_sl_simple"
    /\ TickKeeps
    /\ UNCHANGED <<positions, sells, removed>>
    /\ submitted' = submitted \cup {"SL"}
    /\ Log("REQ_STOP_LOSS")
    /\ pc' = "a_tp_price"
    /\ IF accept
       THEN /\ exOrders' = [exOrders EXCEPT !.sl = "NEW"]
            /\ tk' = [tk EXCEPT !.res_sl = "order"]
       ELSE /\ UNCHANGED exOrders
            /\ tk' = [tk EXCEPT !.res_sl = "software", !.res_sw = TRUE]

\* variant: the software flag of the result is not stored
StoreProtective_NoFlag(p, res_sw, res_sl, res_tp) ==
    [p EXCEPT !.stop_loss_order_id = IF res_sl = "order" THEN "sl" ELSE @,
              !.take_profit_order_id = IF res_tp = "order" THEN "tp" ELSE @,
              !.protective_orders_placed = TRUE,
              !.status = "protected"]

\* variant: a bracket whose native stop loss was refused goes back to
\* waiting, so that the next tick places the protective orders again
StoreProtective_Retry(p, res_sw, res_sl, res_tp) ==
    [p EXCEPT !.software_stop_loss = res_sw,
              !.stop_loss_order_id = IF res_sl = "order" THEN "sl" ELSE @,
              !.take_profit_order_id = IF res_tp = "order" THEN "tp" ELSE @,
              !.protective_orders_placed = TRUE,
              !.status = IF res_sl = "order" THEN "protected" ELSE "waiting_for_fill"]

(* What the engine stores from protective_result (res_tp is               *)
(* results['take_profit_order']), then status = 'protected'.               *)
StoreProtective(p, res_sw, res_sl, res_tp) ==
    [p EXCEPT !.software_stop_loss = res_sw,
              !.stop_loss_order_id = IF res_sl = "order" THEN "sl" ELSE @,
              !.take_profit_order_id = IF res_tp = "order" THEN "tp" ELSE @,
              !.protective_orders_placed = TRUE,
              !.status = "protected"]

\* variant: Step 2 is an if, and runs in the tick that armed the bracket
AfterArming_FallThrough == "p_price"

\* the tick is over once the FILLED branch has run: Step 2 is an elif
AfterArming == "done"

\* should_place_tp for a SELL exit: current_price is 0 when the ticker
\* raised or carried no price
ShouldPlaceTp(current_price, take_profit_price) ==
    ~(current_price # 0 /\ take_profit_price <= current_price)

\* get_ticker_price for the take-profit check; cp is the price it gives
A_TpPrice(cp) ==
    /\ pc = "a_tp_price"
    /\ cp \in {0, price}
    /\ TickKeeps
    /\ UNCHANGED <<exOrders, submitted, sells, removed, tk>>
    /\ IF ShouldPlaceTp(cp, Pos.take_profit_price)
       THEN /\ pc' = "a_tp_limit"
            /\ trace' = trace
            /\ UNCHANGED positions
       ELSE /\ pc' = AfterArming
            /\ positions' = [positions EXCEPT
                   ![tk.key] = StoreProtective(@, tk.res_sw, tk.res_sl, "software")]
            /\ trace' = trace \o <<"TP_SOFTWARE", "protected">>

\* the LIMIT SELL request for the take profit, and the return to the engine
A_TpLimit(accept) ==
    /\ pc = "a_tp_limit"
    /\ TickKeeps
    /\ UNCHANGED <<sells, removed, tk>>
    /\ submitted' = submitted \cup {"TP"}
    /\ trace' = trace \o <<"REQ_TP_LIMIT", "protected">>
    /\ pc' = AfterArming
    /\ exOrders' = IF accept THEN [exOrders EXCEPT !.tp = "NEW"] ELSE exOrders
    /\ positions' = [positions EXCEPT
           ![tk.key] = StoreProtective(@, tk.res_sw, tk.res_sl,
                                       IF accept THEN "order" ELSE "software")]


-----------------------------------------------------------------------------
(* Step 2: status == 'protected' *)

\* the exchange's handling of a cancel request for order o that succeeds
Cancelled(o) == [exOrders EXCEPT ![o] = "CANCELED"]

\* a cancel request can succeed only on an order that is still open
CanCancel(o) == exOrders[o] \in {"NEW", "PARTIALLY_FILLED"}

\* variant: the take-profit section does not look at position_closed
TpBranch_Unguarded(t, take_profit_price) ==
    IF t.tp_id # None
    THEN "p_tp_status"
    ELSE IF t.tp_id = None /\ t.cp # 0 /\ t.cp >= take_profit_price
         THEN "p_swtp_sell"
         ELSE "p_end"

\* "Monitor take profit order" and "Software-based take profit monitoring":
\* where the tick goes once the stop-loss section is over
TpBranch(t, take_profit_price) ==
    IF t.tp_id # None /\ ~t.closed
    THEN "p_tp_status"
    ELSE IF t.tp_id = None /\ t.cp # 0 /\ ~t.closed /\ t.cp >= take_profit_price
         THEN "p_swtp_sell"
         ELSE "p_end"

\* variant: the stop fires only strictly below the stop price
SoftwareStopTriggered_Strict(t, stop_price) == t.cp < stop_price

\* the software stop-loss trigger
SoftwareStopTriggered(t, stop_price) == t.cp <= stop_price

\* variant: a stop-loss order id is polled whatever the software flag says
SlBranch_IdOnly(t, p) ==
    IF t.sl_id # None
    THEN "p_sl_status"
    ELSE IF t.sw /\ t.cp # 0
         THEN IF SoftwareStopTriggered(t, p.stop_loss_price)
              THEN IF t.tp_id # None THEN "p_swsl_cancel" ELSE "p_swsl_sell"
              ELSE TpBranch(t, p.take_profit_price)
         ELSE TpBranch(t, p.take_profit_price)

\* the stop-loss section: native status poll, else software price check
SlBranch(t, p) ==
    IF t.sl_id # None /\ ~t.sw
    THEN "p_sl_status"
    ELSE IF t.sw /\ t.cp # 0
         THEN IF SoftwareStopTriggered(t, p.stop_loss_price)
              THEN IF t.tp_id # None THEN "p_swsl_cancel" ELSE "p_swsl_sell"
              ELSE TpBranch(t, p.take_profit_price)
         ELSE TpBranch(t, p.take_profit_price)

\* get_ticker_price at the top of the protected branch
P_Price(answers, cp) ==
    /\ pc = "p_price"
    /\ cp \in {0, price}
    /\ TickKeeps
    /\ UNCHANGED <<positions, exOrders, submitted, sells, removed>>
    /\ IF ~answers
       THEN /\ trace' = trace
            /\ pc' = "done"
            /\ tk' = tk
       ELSE /\ tk' = [tk EXCEPT !.cp = cp]
            /\ pc' = SlBranch(tk', Pos)
            /\ trace' = trace

\* get_order_status(stop_loss_order_id)
P_SlStatus(answers) ==
    /\ pc = "p_sl_status"
    /\ TickKeeps
    /\ UNCHANGED <<exOrders, submitted, sells, removed>>
    /\ IF ~answers
       THEN /\ Log("STATUS_SL")
            /\ UNCHANGED <<positions, tk>>
            /\ pc' = TpBranch(tk, Pos.take_profit_price)
       ELSE CASE exOrders.sl = "FILLED" ->
                   /\ tk' = [tk EXCEPT !.closed = TRUE]
                   /\ trace' = trace \o <<"STATUS_SL", "EXIT_NATIVE_SL">>
                   /\ pc' = IF tk.tp_id # None THEN "p_sl_canceltp"
                            ELSE TpBranch(tk', Pos.take_profit_price)
                   /\ UNCHANGED positions
              [] exOrders.sl \in Terminal ->
                   /\ positions' = [positions EXCEPT ![tk.key].software_stop_loss = TRUE]
                   /\ trace' = trace \o <<"STATUS_SL", "SL_TO_SOFTWARE">>
                   /\ tk' = tk
                   /\ pc' = TpBranch(tk, Pos.take_profit_price)
              [] OTHER ->
                   /\ Log("STATUS_SL")
                   /\ UNCHANGED <<positions, tk>>
                   /\ pc' = TpBranch(tk, Pos.take_profit_price)

\* cancel_order(take_profit_order_id) after the native stop loss filled
P_SlCancelTp(ok) ==
    /\ pc = "p_sl_canceltp"
    /\ ok => CanCancel("tp")
    /\ TickKeeps
    /\ UNCHANGED <<positions, submitted, sells, removed, tk>>
    /\ exOrders' = IF ok THEN Cancelled("tp") ELSE exOrders
    /\ Log(IF ok THEN "CANCEL_TP_OK" ELSE "CANCEL_TP_FAILED")
    /\ pc' = TpBranch(tk, Pos.take_profit_price)

\* variant: no sleep after the unlock cancel
AfterUnlockCancel_NoSleep(ok) == "p_swsl_sell"

\* after the unlock cancel: the 0.5 s sleep follows a cancel that succeeded
AfterUnlockCancel(ok) == IF ok THEN "p_swsl_sleep" ELSE "p_swsl_sell"

\* software stop loss: cancel_order(take_profit_order_id) "to unlock quantity"
P_SwSlCancelTp(ok) ==
    /\ pc = "p_swsl_cancel"
    /\ ok => CanCancel("tp")
    /\ TickKeeps
    /\ UNCHANGED <<positions, submitted, sells, removed, tk>>
    /\ exOrders' = IF ok THEN Cancelled("tp") ELSE exOrders
    /\ Log(IF ok THEN "UNLOCK_TP_OK" ELSE "UNLOCK_TP_FAILED")
    /\ pc' = AfterUnlockCancel(ok)

\* asyncio.sleep(0.5) after a successful cancel
P_SwSlSleep ==
    /\ pc = "p_swsl_sleep"
    /\ TickKeeps
    /\ UNCHANGED <<positions, exOrders, submitted, sells, removed, tk>>
    /\ Log("SLEEP")
    /\ pc' = "p_swsl_sell"

\* where the tick goes when the stop-loss MARKET SELL raised an error that
\* is not "Oversold": the position counts as closed
SlSellFailedClosed == TRUE

\* variant: the stop-loss sell goes through the engine's gated
\* place_limit_sell_order, which returns None once the quota is used up
P_SwSlSell_Gated(r) ==
    /\ pc = "p_swsl_sell"
    /\ r \in {"accept", "Oversold", "other error"}
    /\ TickKeeps
    /\ UNCHANGED <<positions, exOrders, removed>>
    /\ IF daily_order_count < max_orders_per_day
       THEN /\ submitted' = submitted \cup {"MARKET_SELL"}
            /\ sells' = sells + 1
            /\ tk' = [tk EXCEPT !.closed = TRUE]
            /\ trace' = trace \o <<"REQ_SELL_SL", "EXIT_SW_SL">>
            /\ pc' = TpBranch(tk', Pos.take_profit_price)
       ELSE /\ UNCHANGED <<submitted, sells, tk, trace>>
            /\ pc' = TpBranch(tk, Pos.take_profit_price)

\* place_market_order(SELL) of the software stop loss; r is the answer
P_SwSlSell(r) ==
    /\ pc = "p_swsl_sell"
    /\ r \in {"accept", "Oversold", "other error"}
    /\ TickKeeps
    /\ UNCHANGED <<positions, exOrders, removed>>
    /\ submitted' = submitted \cup {"MARKET_SELL"}
    /\ sells' = sells + 1
    /\ CASE r = "accept" ->
              /\ tk' = [tk EXCEPT !.closed = TRUE]
              /\ trace' = trace \o <<"REQ_SELL_SL", "EXIT_SW_SL">>
              /\ pc' = TpBranch(tk', Pos.take_profit_price)
         [] r = "Oversold" ->
              /\ tk' = tk
              /\ trace' = trace \o <<"REQ_SELL_SL", "SELL_SL_OVERSOLD">>
              /\ pc' = "p_emergency"
         [] OTHER ->
              /\ tk' = [tk EXCEPT !.closed = SlSellFailedClosed]
              /\ trace' = trace \o <<"REQ_SELL_SL", "SELL_SL_FAILED">>
              /\ pc' = TpBranch(tk', Pos.take_profit_price)

\* _execute_limit_order_with_discount ends in "return True" whatever the
\* four placements did
DiscountLadderSuccess == TRUE

\* _execute_emergency_stop_loss_protocols: micro-batches, then the ladder
EmergencySuccess(micro_batch_success) == micro_batch_success \/ DiscountLadderSuccess

(* _execute_emergency_stop_loss_protocols: the open SELL orders of the     *)
(* symbol in unlocked are cancelled, then the protocols run;               *)
(* micro_batch_success is what _execute_micro_batch_selling returns.       *)
P_Emergency(unlocked, micro_batch_success) ==
    /\ pc = "p_emergency"
    /\ unlocked \subseteq {o \in {"sl", "tp"} : exOrders[o] = "NEW"}
    /\ TickKeeps
    /\ UNCHANGED <<positions, sells, removed>>
    /\ exOrders' = [o \in DOMAIN exOrders |->
                       IF o \in unlocked THEN "CANCELED" ELSE exOrders[o]]
    /\ submitted' = submitted \cup {"EMERGENCY_SELL"}
    /\ IF EmergencySuccess(micro_batch_success)
       THEN /\ tk' = [tk EXCEPT !.closed = TRUE]
            /\ trace' = trace \o <<"EMERGENCY", "EXIT_EMERGENCY">>
            /\ pc' = IF tk.tp_id # None THEN "p_emg_canceltp"
                     ELSE TpBranch(tk', Pos.take_profit_price)
       ELSE /\ tk' = tk
            /\ trace' = trace \o <<"EMERGENCY", "EMERGENCY_FAILED">>
            /\ pc' = TpBranch(tk, Pos.take_profit_price)

\* cancel_order(take_profit_order_id) after the emergency protocols
P_EmgCancelTp(ok) ==
    /\ pc = "p_emg_canceltp"
    /\ ok => CanCancel("tp")
    /\ TickKeeps
    /\ UNCHANGED <<positions, submitted, sells, removed, tk>>
    /\ exOrders' = IF ok THEN Cancelled("tp") ELSE exOrders
    /\ Log(IF ok THEN "CANCEL_TP_OK" ELSE "CANCEL_TP_FAILED")
    /\ pc' = TpBranch(tk, Pos.take_profit_price)

\* get_order_status(take_profit_order_id)
P_TpStatus(answers) ==
    /\ pc = "p_tp_status"
    /\ TickKeeps
    /\ UNCHANGED <<positions, exOrders, submitted, sells, removed>>
    /\ IF answers /\ exOrders.tp = "FILLED"
       THEN /\ tk' = [tk EXCEPT !.closed = TRUE]
            /\ trace' = trace \o <<"STATUS_TP", "EXIT_NATIVE_TP">>
            /\ pc' = IF tk.sl_id # None THEN "p_tp_cancelsl" ELSE "p_end"
       ELSE /\ tk' = tk
            /\ Log("STATUS_TP")
            /\ pc' = "p_end"

\* variant: a cancel that fails is not caught, and ends the tick
P_TpCancelSl_Raises(ok) ==
    /\ pc = "p_tp_cancelsl"
    /\ ok => CanCancel("sl")
    /\ TickKeeps
    /\ UNCHANGED <<positions, submitted, sells, removed, tk>>
    /\ exOrders' = IF ok THEN Cancelled("sl") ELSE exOrders
    /\ Log(IF ok THEN "CANCEL_SL_OK" ELSE "CANCEL_SL_FAILED")
    /\ pc' = IF ok THEN "p_end" ELSE "done"

\* cancel_order(stop_loss_order_id) after the native take profit filled
P_TpCancelSl(ok) ==
    /\ pc = "p_tp_cancelsl"
    /\ ok => CanCancel("sl")
    /\ TickKeeps
    /\ UNCHANGED <<positions, submitted, sells, removed, tk>>
    /\ exOrders' = IF ok THEN Cancelled("sl") ELSE exOrders
    /\ Log(IF ok THEN "CANCEL_SL_OK" ELSE "CANCEL_SL_FAILED")
    /\ pc' = "p_end"

\* place_market_order(SELL) of the software take profit
P_SwTpSell(accept) ==
    /\ pc = "p_swtp_sell"
    /\ TickKeeps
    /\ UNCHANGED <<positions, exOrders, removed>>
    /\ submitted' = submitted \cup {"MARKET_SELL"}
    /\ sells' = sells + 1
    /\ IF accept
       THEN /\ tk' = [tk EXCEPT !.closed = TRUE]
            /\ trace' = trace \o <<"REQ_SELL_TP", "EXIT_SW_TP">>
            /\ pc' = IF tk.sl_id # None THEN "p_swtp_cancelsl" ELSE "p_end"
       ELSE /\ tk' = tk
            /\ trace' = trace \o <<"REQ_SELL_TP", "SELL_TP_FAILED">>
            /\ pc' = "p_end"

\* cancel_order(stop_loss_order_id) after the software take profit sold
P_SwTpCancelSl(ok) ==
    /\ pc = "p_swtp_cancelsl"
    /\ ok => CanCancel("sl")
    /\ TickKeeps
    /\ UNCHANGED <<positions, submitted, sells, removed, tk>>
    /\ exOrders' = IF ok THEN Cancelled("sl") ELSE exOrders
    /\ Log(IF ok THEN "CANCEL_SL_OK" ELSE "CANCEL_SL_FAILED")
    /\ pc' = "p_end"

\* "Remove position if closed"
P_End ==
    /\ pc = "p_end"
    /\ TickKeeps
    /\ UNCHANGED <<exOrders, submitted, sells, tk>>
    /\ pc' = "done"
    /\ IF tk.closed
       THEN /\ positions' = Remove(positions, tk.key)
            /\ removed' = removed \cup {tk.key}
            /\ Log("DEL_CLOSED")
       ELSE UNCHANGED <<positions, removed, trace>>

-----------------------------------------------------------------------------
(* TradingEngine.cancel_order(order_id) and _cleanup_position *)

\* the key cancel_order hands to _cleanup_position: str(order_id)
CleanupKey(order_id) == ToString(order_id)

\* variant: a key that is not registered empties the registry
Cleanup_DropAll(registry, position_id) ==
    IF position_id \in DOMAIN registry THEN Remove(registry, position_id) ELSE EmptyMap

\* "Remove from active positions" of _cleanup_position
Cleanup(registry, position_id) ==
    IF position_id \in DOMAIN registry THEN Remove(registry, position_id) ELSE registry

\* where the bracket of a main order id stands; "closed": not in the registry
BracketStatus(order_id) ==
    IF PositionKey(order_id) \in DOMAIN positions
    THEN positions[PositionKey(order_id)].status
    ELSE "closed"

(* cancel_order(order_id) for the main order id of a bracket the exchange  *)
(* has accepted; ok is whether the exchange takes the cancel, which it     *)
(* does for a registered bracket only while the main order is open.  When  *)
(* the request raises, nothing else runs.  The calls are followed between  *)
(* two ticks of the monitor: in the middle of a tick a call does to the    *)
(* exchange what ExOrderMoves does.  _cleanup_position reads               *)
(* self.stop_loss_orders first, which exists only where last_reset_date    *)
(* does (both are created by the same block): without it the cleanup       *)
(* raises before it reaches the registry.                                  *)
CancelOrder(order_id, ok) ==
    /\ pc = "idle"
    /\ order_id \in 1..(nextOrderId - 1)
    /\ LET live == PositionKey(order_id) \in DOMAIN positions
           again == cancel.order_id = order_id /\ cancel.status = BracketStatus(order_id)
       IN
       /\ (ok /\ live) => CanCancel("main")
       /\ again => cancel.calls < MaxCancels
       /\ exOrders' = IF ok /\ live THEN Cancelled("main") ELSE exOrders
       /\ positions' = IF ok /\ last_reset_date # 0
                       THEN Cleanup(positions, CleanupKey(order_id))
                       ELSE positions
       /\ removed' = removed \cup (DOMAIN positions \ DOMAIN positions')
       /\ cancel' = [order_id |-> order_id,
                     status |-> BracketStatus(order_id),
                     calls |-> IF again THEN cancel.calls + 1 ELSE 1]
    /\ UNCHANGED <<daily_order_count, last_reset_date, nextOrderId, price, pc, tk,
                   trace, submitted, sells, submission, clock, limiter, otherVars>>

-----------------------------------------------------------------------------
Monitor ==
    \/ \E k \in DOMAIN positions : TickStart(k)
    \/ TickReturn
    \/ \E answers \in BOOLEAN, dry_run \in BOOLEAN : W_Status(answers, dry_run)
    \/ \E r \in {"accept", "invalid type", "other error"} : A_StopLossLimit(r)
    \/ \E accept \in BOOLEAN : A_StopLossSimple(accept)
    \/ \E cp \in 0..MaxPrice : A_TpPrice(cp)
    \/ \E accept \in BOOLEAN : A_TpLimit(accept)
    \/ \E answers \in BOOLEAN, cp \in 0..MaxPrice : P_Price(answers, cp)
    \/ \E answers \in BOOLEAN : P_SlStatus(answers)
    \/ \E ok \in BOOLEAN : P_SlCancelTp(ok)
    \/ \E ok \in BOOLEAN : P_SwSlCancelTp(ok)
    \/ P_SwSlSleep
    \/ \E r \in {"accept", "Oversold", "other error"} : P_SwSlSell(r)
    \/ \E unlocked \in SUBSET {"sl", "tp"}, m \in BOOLEAN : P_Emergency(unlocked, m)
    \/ \E ok \in BOOLEAN : P_EmgCancelTp(ok)
    \/ \E answers \in BOOLEAN : P_TpStatus(answers)
    \/ \E ok \in BOOLEAN : P_TpCancelSl(ok)
    \/ \E accept \in BOOLEAN : P_SwTpSell(accept)
    \/ \E ok \in BOOLEAN : P_SwTpCancelSl(ok)
    \/ P_End

Environment ==
    \/ PriceMove
    \/ \E o \in {"main", "sl", "tp"}, s \in OrderStatus : ExOrderMoves(o, s)

Next ==
    \/ \E entry \in EntryPrices, sl \in StopPrices, tp \in TargetPrices,
          open \in BOOLEAN, today \in 1..MaxDay, dry_run \in BOOLEAN,
          accept \in BOOLEAN :
          PlaceSequentialBracket(entry, sl, tp, open, today, dry_run, accept)
    \/ Monitor
    \/ Environment

\* placement, the monitor and the exchange
Spec == Init /\ [][Next]_vars

-----------------------------------------------------------------------------
(* The same program while the market falls.  From the moment market is     *)
(* "falling" the price no longer rises above a registered stop-loss price  *)
(* it has reached, the ticker and the status requests answer, and the      *)
(* exchange accepts MARKET SELL orders.  monitor_positions is a while True *)
(* loop that sleeps 0.1 s between two rounds, so a tick that can run does  *)
(* run; the exchange fills a native stop-loss order that rests at or above *)
(* the price.                                                              *)

Falling == market = "falling"

\* the stop-loss prices of the registered brackets the price has reached
StopsReached(p) == {positions[k].stop_loss_price : k \in {j \in DOMAIN positions :
                                                        p <= positions[j].stop_loss_price}}

\* from now on the market falls
MarketTurns ==
    /\ market = "free"
    /\ market' = "falling"
    /\ UNCHANGED butMarket

\* a price move that stays under the stops already reached
PriceMoveFalling ==
    /\ PriceMove
    /\ Falling => \A s \in StopsReached(price) : price' <= s

\* the exchange fills the native stop-loss order the price has reached
StopLossFills ==
    /\ Falling
    /\ StopsReached(price) # {}
    /\ ExOrderMoves("sl", "FILLED")

\* the steps of the monitor while the market falls
MonitorFalling ==
    /\ Falling
    /\ \/ \E k \in DOMAIN positions : TickStart(k)
       \/ TickReturn
       \/ \E dry_run \in BOOLEAN : W_Status(TRUE, dry_run)
       \/ \E r \in {"accept", "invalid type", "other error"} : A_StopLossLimit(r)
       \/ \E accept \in BOOLEAN : A_StopLossSimple(accept)
       \/ A_TpPrice(price)
       \/ \E accept \in BOOLEAN : A_TpLimit(accept)
       \/ P_Price(TRUE, price)
       \/ P_SlStatus(TRUE)
       \/ \E ok \in BOOLEAN : P_SlCancelTp(ok)
       \/ \E ok \in BOOLEAN : P_SwSlCancelTp(ok)
       \/ P_SwSlSleep
       \/ P_SwSlSell("accept")
       \/ \E unlocked \in SUBSET {"sl", "tp"}, m \in BOOLEAN : P_Emergency(unlocked, m)
       \/ \E ok \in BOOLEAN : P_EmgCancelTp(ok)
       \/ P_TpStatus(TRUE)
       \/ \E ok \in BOOLEAN : P_TpCancelSl(ok)
       \/ P_SwTpSell(TRUE)
       \/ \E ok \in BOOLEAN : P_SwTpCancelSl(ok)
       \/ P_End

MonitorFree == market = "free" /\ Monitor

FallingNext ==
    \/ \E entry \in EntryPrices, sl \in StopPrices, tp \in TargetPrices,
          open \in BOOLEAN, today \in 1..MaxDay, dry_run \in BOOLEAN,
          accept \in BOOLEAN :
          PlaceSequentialBracket(entry, sl, tp, open, today, dry_run, accept)
    \/ MonitorFree
    \/ MonitorFalling
    \/ MarketTurns
    \/ PriceMoveFalling
    \/ \E o \in {"main", "sl", "tp"}, s \in OrderStatus : ExOrderMoves(o, s)

FallingSpec ==
    /\ Init
    /\ [][FallingNext]_vars
    /\ WF_vars(MonitorFalling)
    /\ WF_vars(StopLossFills)

\* the percentages a caller may pass, and the price they are applied to
Percentages == {0, 50}
PctPrices == {4}

\* the bracket-placing operations alone
GateNext ==
    \/ \E entry \in EntryPrices, sl \in StopPrices, tp \in TargetPrices,
          open \in BOOLEAN, today \in 1..MaxDay, dry_run \in BOOLEAN,
          accept \in BOOLEAN :
          \/ SubmitSequentialBracket(entry, sl, tp, open, today, dry_run, accept)
          \/ PlaceSimpleBracket(entry, sl, tp, open, today, dry_run, accept)
    \/ \E p \in PctPrices, sl_pct \in Percentages, tp_pct \in Percentages,
          open \in BOOLEAN, today \in 1..MaxDay, dry_run \in BOOLEAN,
          bracket_type \in {"integrated", "oco", "software", "failed"} :
          PlaceBracketBuy(p, sl_pct, tp_pct, open, today, dry_run, bracket_type)

\* the market plays no part in a placement: one price is enough
GateInit == Init /\ price = 1

-----------------------------------------------------------------------------
(* is_trading_time.  Times of day are seconds since midnight; the clock    *)
(* reads seconds, the configured "%H:%M" strings parse to whole minutes.   *)

HMS(h, m, sec) == (h * 60 + m) * 60 + sec
HM(h, m) == HMS(h, m, 0)
Day == HMS(24, 0, 0)

\* local_now.time(): the clock's time of day in the window's time zone,
\* given as the zone's offset in hours
LocalTime(now, timezone) == (now + Day + timezone * HMS(1, 0, 0)) % Day

\* an overnight test that asks for both comparisons
InWindow_Both(window, current_time) ==
    IF window.start_time <= window.end_time
    THEN window.start_time <= current_time /\ current_time <= window.end_time
    ELSE current_time >= window.start_time /\ current_time <= window.end_time

\* the body of the loop: the same-day and the overnight comparison
InWindow(window, current_time) ==
    IF window.start_time <= window.end_time
    THEN window.start_time <= current_time /\ current_time <= window.end_time
    ELSE current_time >= window.start_time \/ current_time <= window.end_time

\* the loop over config.trading_windows from window i on, returning True at
\* the first window that holds the current time and False after the last
RECURSIVE ScanWindows(_, _, _)
ScanWindows(windows, now, i) ==
    IF i > Len(windows) THEN FALSE
    ELSE IF InWindow(windows[i], LocalTime(now, windows[i].timezone)) THEN TRUE
    ELSE ScanWindows(windows, now, i + 1)

IsTradingTime(windows, now) ==
    IF windows = <<>> THEN TRUE ELSE ScanWindows(windows, now, 1)

Night == [start_time |-> HM(22, 0), end_time |-> HM(6, 0), timezone |-> 0]
Office == [start_time |-> HM(9, 0), end_time |-> HM(17, 0), timezone |-> 0]
NightNewYork == [start_time |-> HM(22, 0), end_time |-> HM(6, 0), timezone |-> -5]
Noon == [start_time |-> HM(12, 0), end_time |-> HM(12, 0), timezone |-> 0]

\* the window configurations and the clock readings considered
WindowConfigs ==
    {<<>>, <<Night>>, <<Office>>, <<Office, Night>>, <<NightNewYork>>, <<Noon, NightNewYork>>}
Seconds == {0, 30}
ClockTimes == {HMS(h, m, sec) : h \in 0..23, m \in 0..59, sec \in Seconds}

\* the engine asks whether trading is open
IsTradingTimeCall ==
    /\ ~clock.asked
    /\ clock' = [clock EXCEPT !.asked = TRUE,
                              !.answer = IsTradingTime(clock.windows, clock.now)]
    /\ UNCHANGED <<mainVars, cancel, submission, limiter, otherVars>>

\* half a minute passes
ClockAdvance ==
    /\ clock' = [clock EXCEPT !.now = (clock.now + 30) % Day,
                              !.asked = FALSE, !.answer = FALSE]
    /\ UNCHANGED <<mainVars, cancel, submission, limiter, otherVars>>

ClockInit ==
    /\ EngineInit /\ price = 1 /\ last_reset_date = 0
    /\ limiter = NoLimiter
    /\ OtherInit
    /\ clock \in [windows : WindowConfigs, now : ClockTimes, asked : {FALSE}, answer : {FALSE}]

ClockNext == IsTradingTimeCall \/ ClockAdvance

ClockSpec == ClockInit /\ [][ClockNext]_vars

-----------------------------------------------------------------------------
(* MexcClient._rate_limit and the head of _make_request.  Time is counted  *)
(* in units of which MinInterval make 1 / rate_limit_rps.  A coroutine is  *)
(* "idle", at "acquire" (waiting for _rate_limit_lock) or at "sleep"       *)
(* (inside the lock, in asyncio.sleep).  From the stamp of                 *)
(* _last_request_time to session.request there is no await, so the stamp   *)
(* is the start of the request.                                            *)

MinInterval == 2
MaxTime == 8
MaxRequests == 4
Coroutines == {"c1", "c2"}

\* a lock that lets every caller in
LockFree_Always == TRUE

\* asyncio.Lock: free when nobody holds it
LockFree == limiter.holder = None

\* the requests under way
Pending == {c \in Coroutines : limiter.at[c] # "idle"}

\* the stamp at the end of _rate_limit, the release of the lock and the
\* request that follows; held tells whether the sender held the lock
Stamped(l, c) ==
    [l EXCEPT !.last = l.time,
              !.starts = Append(@, [t |-> l.time, held |-> l.holder = c]),
              !.holder = None,
              !.at[c] = "idle"]

\* a coroutine calls _make_request, which awaits _rate_limit
MakeRequest(c) ==
    /\ limiter.at[c] = "idle"
    /\ Len(limiter.starts) + Cardinality(Pending) < MaxRequests
    /\ limiter' = [limiter EXCEPT !.at[c] = "acquire"]
    /\ UNCHANGED <<mainVars, cancel, submission, clock, otherVars>>

\* the lock is taken, the time since the last request is measured, and the
\* caller goes to sleep for the rest of the interval or passes at once
Acquire(c) ==
    /\ limiter.at[c] = "acquire"
    /\ LockFree
    /\ LET held == [limiter EXCEPT !.holder = c]
           time_since_last == limiter.time - limiter.last
       IN limiter' =
            IF time_since_last < MinInterval
            THEN [held EXCEPT !.at[c] = "sleep",
                              !.wake[c] = limiter.time + (MinInterval - time_since_last)]
            ELSE Stamped(held, c)
    /\ UNCHANGED <<mainVars, cancel, submission, clock, otherVars>>

\* asyncio.sleep returns, not before its time
Wake(c) ==
    /\ limiter.at[c] = "sleep"
    /\ limiter.time >= limiter.wake[c]
    /\ limiter' = Stamped(limiter, c)
    /\ UNCHANGED <<mainVars, cancel, submission, clock, otherVars>>

TimePasses ==
    /\ limiter.time < MaxTime
    /\ limiter' = [limiter EXCEPT !.time = @ + 1]
    /\ UNCHANGED <<mainVars, cancel, submission, clock, otherVars>>

\* the clock is far from the 0 that _last_request_time starts at
LimiterInit ==
    /\ EngineInit /\ price = 1 /\ last_reset_date = 0
    /\ clock = NoClock
    /\ OtherInit
    /\ limiter = [NoLimiter EXCEPT !.time = MinInterval,
                                   !.at = [c \in Coroutines |-> "idle"],
                                   !.wake = [c \in Coroutines |-> 0]]

LimiterNext ==
    \/ \E c \in Coroutines : MakeRequest(c) \/ Acquire(c) \/ Wake(c)
    \/ TimePasses

LimiterSpec == LimiterInit /\ [][LimiterNext]_vars

-----------------------------------------------------------------------------
(* _make_request after the rate limiter: one logical request, the answers  *)
(* of the exchange, and how the call ends.  mexc_client.py raises on every *)
(* status other than 200.  mexc_client_new.py has a branch for 429 that    *)
(* calls asyncio.sleep(1) and then itself again, but the module never      *)
(* imports asyncio: the NameError is caught by the except clause of the    *)
(* same function and re-raised.                                            *)

MaxCalls == 3
Clients == {"mexc_client", "mexc_client_new"}
HttpStatus == {200, 400, 429, 500}

\* the caller issues a request and the client sends it
SendRequest ==
    /\ request.at = "idle"
    /\ Len(request.log) < MaxCalls
    /\ request' = [request EXCEPT !.at = "sent", !.first = 0, !.sends = 1, !.backoffs = 0]
    /\ UNCHANGED butRequest

\* the response arrives: 200 returns the body, anything else raises
Response(status) ==
    /\ request.at = "sent"
    /\ LET first == IF request.first = 0 THEN status ELSE request.first
           ended == [first |-> first, last |-> status, sends |-> request.sends,
                     backoffs |-> request.backoffs,
                     result |-> IF status = 200 THEN "returned" ELSE "raised"]
       IN request' = [request EXCEPT !.at = "idle", !.first = first,
                                     !.log = Append(@, ended)]
    /\ UNCHANGED butRequest

RequestInit ==
    /\ quietButRequest
    /\ request \in {[NoRequest EXCEPT !.client = c] : c \in Clients}

RequestNext == SendRequest \/ \E status \in HttpStatus : Response(status)

RequestSpec == RequestInit /\ [][RequestNext]_vars

-----------------------------------------------------------------------------
(* MexcClient.format_quantity.  Quantities are counted in thousandths.  A  *)
(* step size is the string the exchange reports; the table gives what the  *)
(* code derives from it: the number of decimal places and its float value  *)
(* (0 for a step finer than a thousandth, of which every quantity here is  *)
(* a multiple; -1 for a string float() rejects).                           *)

MaxQuantity == 1300
StepSizes == {"1", "0.5", "0.1", "0.01", "0.001", "0.00000001", "n/a"}
Symbols == {"BTCUSDT", "XRPUSDT", "SOLUSDT", "UNKNOWN"}

StepPlaces(step_size) ==
    CASE step_size = "1" -> 0
      [] step_size \in {"0.5", "0.1"} -> 1
      [] step_size = "0.01" -> 2
      [] step_size = "0.001" -> 3
      [] OTHER -> 8

StepFloat(step_size) ==
    CASE step_size = "1" -> 1000
      [] step_size = "0.5" -> 500
      [] step_size = "0.1" -> 100
      [] step_size = "0.01" -> 10
      [] step_size = "0.001" -> 1
      [] step_size = "n/a" -> -1
      [] OTHER -> 0

\* 10 ^ -places in thousandths; places beyond 3 are finer than the grid
PlaceUnit(places) ==
    CASE places = 0 -> 1000 [] places = 1 -> 100 [] places = 2 -> 10 [] OTHER -> 1

\* rounding down to a multiple of the unit
RoundDown(x, unit) == {(x \div unit) * unit}

\* Python's round: the nearest multiple of the unit; for a decimal tie the
\* binary value of the float decides, so both neighbours are outcomes
RoundNearest(x, unit) ==
    LET lo == (x \div unit) * unit
        r == x - lo
    IN IF 2 * r < unit THEN {lo}
       ELSE IF 2 * r > unit THEN {lo + unit}
       ELSE {lo, lo + unit}

\* the practical fallback for "unrealistic" step sizes of USDT pairs
IsUsdt(symbol) == symbol \in {"BTCUSDT", "XRPUSDT", "SOLUSDT"}
Unrealistic(step_size, symbol) == IsUsdt(symbol) /\ StepFloat(step_size) = 0

EffectivePlaces(step_size, symbol) ==
    IF ~Unrealistic(step_size, symbol) THEN StepPlaces(step_size)
    ELSE IF symbol = "BTCUSDT" THEN 3
    ELSE IF symbol = "XRPUSDT" THEN 1
    ELSE 2

EffectiveStep(step_size, symbol) ==
    IF ~Unrealistic(step_size, symbol) THEN StepFloat(step_size)
    ELSE PlaceUnit(EffectivePlaces(step_size, symbol))

\* the except branch: round to 1, 3 or 2 places by symbol
FallbackPlaces(symbol) ==
    IF symbol = "XRPUSDT" THEN 1 ELSE IF symbol = "BTCUSDT" THEN 3 ELSE 2

\* the values format_quantity can return
FormatQuantity(quantity, step_size, symbol) ==
    IF StepFloat(step_size) < 0
    THEN RoundNearest(quantity, PlaceUnit(FallbackPlaces(symbol)))
    ELSE LET places == EffectivePlaces(step_size, symbol)
             step_float == EffectiveStep(step_size, symbol)
             rounded == RoundNearest(quantity, PlaceUnit(places))
         IN IF step_float > 0
            THEN UNION {UNION {RoundNearest(b, PlaceUnit(places)) :
                               b \in RoundNearest(a, step_float)} : a \in rounded}
            ELSE rounded

FormatQuantityCall ==
    /\ ~fmt.done
    /\ \E r \in FormatQuantity(fmt.quantity, fmt.step_size, fmt.symbol) :
          fmt' = [fmt EXCEPT !.done = TRUE, !.result = r]
    /\ UNCHANGED butFmt

FormatInit ==
    /\ quietButFmt
    /\ fmt \in [quantity : 0..MaxQuantity, step_size : StepSizes, symbol : Symbols,
                 done : {FALSE}, result : {0}]

FormatNext == FormatQuantityCall

FormatSpec == FormatInit /\ [][FormatNext]_vars

-----------------------------------------------------------------------------
(* place_simple_bracket_order past its gates and                           *)
(* MexcClient.place_bracket_limit_order.  Every request ends in one of     *)
(* these ways: "ok" (accepted, response received), "rejected" (not         *)
(* accepted, _make_request raises), "lost" (accepted by the exchange, but  *)
(* the response times out or the connection drops, so _make_request        *)
(* raises), and for the OCO request "no_id" (status 200 with a body that   *)
(* has no listOrderId; nothing was accepted).                              *)

Outcomes == {"ok", "rejected", "lost"}

\* the exchange took the order
Accepted(outcome) == outcome \in {"ok", "lost"}

\* the engine's part after the client call: a dict is logged, counted and
\* returned; None makes result['bracket_type'] raise TypeError; an
\* exception is re-raised
EngineEnd(c, result) ==
    [c EXCEPT !.at = "done", !.result = result,
              !.engine = IF result \in {None, "raised"} THEN "raised" ELSE "returned",
              !.history = Append(@, result)]

\* an engine that returns whatever the client answered
EngineEnd_ReturnsNone(c, result) ==
    [c EXCEPT !.at = "done", !.result = result,
              !.engine = IF result = "raised" THEN "raised" ELSE "returned",
              !.history = Append(@, result)]

\* the call starts: the OCO request is built and sent
BracketLimitCall ==
    /\ cascade.at \in {"idle", "done"}
    /\ Len(cascade.history) < MaxBrackets
    /\ cascade' = [NoCascade EXCEPT !.at = "oco", !.history = cascade.history]
    /\ UNCHANGED butCascade

\* Method 1: the OCO request returns
OcoReturns(outcome) ==
    /\ cascade.at = "oco"
    /\ LET c == [cascade EXCEPT !.oco = outcome] IN
       cascade' = CASE outcome = "ok" -> [c EXCEPT !.at = "oco_tp"]
                    [] outcome = "no_id" -> EngineEnd(c, None)
                    [] OTHER -> [c EXCEPT !.at = "entry"]
    /\ UNCHANGED butCascade

\* the separate take-profit LIMIT after a confirmed OCO
OcoTpReturns(outcome) ==
    /\ cascade.at = "oco_tp"
    /\ cascade' = EngineEnd([cascade EXCEPT !.oco_tp = outcome],
                            IF outcome = "ok" THEN "native_oco" ELSE "oco_only")
    /\ UNCHANGED butCascade

\* Method 2, step 1: the plain LIMIT entry
EntryReturns(outcome) ==
    /\ cascade.at = "entry"
    /\ LET c == [cascade EXCEPT !.entry = outcome] IN
       cascade' = IF outcome = "ok" THEN [c EXCEPT !.at = "sl"] ELSE EngineEnd(c, "raised")
    /\ UNCHANGED butCascade

\* step 2: the STOP_LOSS_LIMIT; a failure is logged and sl_result is None
SlReturns(outcome) ==
    /\ cascade.at = "sl"
    /\ cascade' = [cascade EXCEPT !.sl = outcome, !.at = "tp"]
    /\ UNCHANGED butCascade

\* step 3: the TAKE_PROFIT_LIMIT; a failure is logged and tp_result is None
TpReturns(outcome) ==
    /\ cascade.at = "tp"
    /\ cascade' = EngineEnd([cascade EXCEPT !.tp = outcome], "sequential_native")
    /\ UNCHANGED butCascade

CascadeInit == quietButCascade /\ cascade = NoCascade

CascadeNext ==
    \/ BracketLimitCall
    \/ \E outcome \in Outcomes \cup {"no_id"} : OcoReturns(outcome)
    \/ \E outcome \in Outcomes :
          \/ OcoTpReturns(outcome)
          \/ EntryReturns(outcome)
          \/ SlReturns(outcome)
          \/ TpReturns(outcome)

CascadeSpec == CascadeInit /\ [][CascadeNext]_vars

-----------------------------------------------------------------------------
(* MexcClient.place_protective_orders_after_fill for a filled BUY bracket. *)
(* The monitor passes the quantity of the registered position.  The        *)
(* inputs: the stepSize get_symbol_precision_info reports ("error": it     *)
(* returned an error dict, and '0.1' is taken), how the STOP_LOSS_LIMIT    *)
(* request ends, whether the simpler STOP_LOSS is accepted, and how the    *)
(* take-profit LIMIT ends ("skip": it would execute at once and is left to *)
(* software monitoring).  The exchange accepts no order of quantity 0.     *)

MaxFill == 150

\* the order parameters of one protective request
ProtectiveOrder(type, symbol, exit_side, formatted_quantity) ==
    [type |-> type, symbol |-> symbol, side |-> exit_side, quantity |-> formatted_quantity]

\* exit_side for original_side
ExitSide(original_side) == IF original_side = "BUY" THEN "SELL" ELSE "BUY"

PlaceProtectiveOrders(precision, sl, simple, tp) ==
    /\ ~protective.done
    /\ LET symbol == protective.symbol
           exit_side == ExitSide("BUY")
           step_size == IF precision = "error" THEN "0.1" ELSE precision
       IN \E formatted_quantity \in FormatQuantity(protective.quantity, step_size, symbol) :
            LET sl_order ==
                    IF formatted_quantity = 0 THEN {}
                    ELSE IF sl = "ok"
                    THEN {ProtectiveOrder("STOP_LOSS_LIMIT", symbol, exit_side,
                                          formatted_quantity)}
                    ELSE IF sl = "invalid type" /\ simple
                    THEN {ProtectiveOrder("STOP_LOSS", symbol, exit_side, formatted_quantity)}
                    ELSE {}
                tp_order ==
                    IF tp = "ok" /\ formatted_quantity > 0
                    THEN {ProtectiveOrder("LIMIT", symbol, exit_side, formatted_quantity)}
                    ELSE {}
            IN protective' = [protective EXCEPT
                                 !.done = TRUE,
                                 !.formatted_quantity = formatted_quantity,
                                 !.software_stop_loss = (sl_order = {}),
                                 !.orders = sl_order \cup tp_order]
    /\ UNCHANGED butProtective

ProtectInit ==
    /\ quietButProtective
    /\ protective \in {[NoProtective EXCEPT !.symbol = s, !.quantity = q] :
                          s \in Symbols \ {"UNKNOWN"}, q \in 1..MaxFill}

ProtectNext ==
    \E precision \in (StepSizes \ {"n/a"}) \cup {"error"},
       sl \in {"ok", "invalid type", "other"}, simple \in BOOLEAN,
       tp \in {"ok", "rejected", "skip"} :
       PlaceProtectiveOrders(precision, sl, simple, tp)

ProtectSpec == ProtectInit /\ [][ProtectNext]_vars

-----------------------------------------------------------------------------
(* The head of _execute_micro_batch_selling: the list of micro-batches.    *)
(* Quantities are in thousandths and the arithmetic is exact.  The symbol  *)
(* format_quantity consults is the one the client handled last; the step   *)
(* sizes here are not subject to its fallback.                             *)

MaxTarget == 6000
batch_sizes == <<500, 800, 1000, 1500, 2000>>
BatchSteps == {"1", "0.1", "0.01"}
\* "very small amount left": 0.05
Dust == 50

Min(a, b) == IF a <= b THEN a ELSE b

RECURSIVE SumSeq(_)
SumSeq(seq) == IF seq = <<>> THEN 0 ELSE Head(seq) + SumSeq(Tail(seq))

\* one pass of the loop over batch_sizes: the states it can lead to
BatchStep(b) ==
    IF b.i > Len(batch_sizes) THEN {[b EXCEPT !.at = "final"]}
    ELSE IF ~(b.remaining_quantity > 0) THEN {[b EXCEPT !.i = @ + 1]}
    ELSE LET actual_batch == Min(batch_sizes[b.i], b.remaining_quantity) IN
         {[b EXCEPT !.micro_batches = Append(@, formatted_batch),
                    !.remaining_quantity = @ - formatted_batch,
                    !.i = @ + 1,
                    !.at = IF b.remaining_quantity - formatted_batch <= Dust
                           THEN "final" ELSE "loop"] :
            formatted_batch \in FormatQuantity(actual_batch, b.step_size, "UNKNOWN")}

\* after the loop: what is left above the dust becomes the final batch
FinalBatch(b) ==
    IF b.remaining_quantity > Dust
    THEN {[b EXCEPT !.at = "done", !.micro_batches = Append(@, final_batch)] :
            final_batch \in FormatQuantity(b.remaining_quantity, b.step_size, "UNKNOWN")}
    ELSE {[b EXCEPT !.at = "done"]}

NextBatch ==
    /\ batching.at = "loop"
    /\ batching' \in BatchStep(batching)
    /\ UNCHANGED butBatching

LastBatch ==
    /\ batching.at = "final"
    /\ batching' \in FinalBatch(batching)
    /\ UNCHANGED butBatching

\* the call for a quantity, with the step size the exchange reports
StartBatching(quantity, step_size) ==
    [NoBatching EXCEPT !.quantity = quantity, !.step_size = step_size, !.at = "loop",
                       !.remaining_quantity = quantity]

BatchInit ==
    /\ quietButBatching
    /\ batching \in {StartBatching(q, s) : q \in 1..MaxTarget, s \in BatchSteps}

BatchNext == NextBatch \/ LastBatch

BatchSpec == BatchInit /\ [][BatchNext]_vars

-----------------------------------------------------------------------------
(* _execute_emergency_stop_loss_protocols for a bracket of the given       *)
(* quantity, after the open SELL orders were cancelled.  free is what the  *)
(* account holds of the asset: the bracket's quantity and whatever else    *)
(* the account owns; the exchange accepts a SELL only up to it, and a      *)
(* resting LIMIT SELL locks its quantity.  sold adds up the quantities of  *)
(* all SELL orders the exchange accepted.                                  *)

LiquidationTargets == {1000, 2500}
ExtraHoldings == {0, 1000}
discount_levels == 4

\* the batches built for a quantity (step sizes and quantities without ties)
RECURSIVE RunBatches(_)
RunBatches(b) ==
    IF b.at = "done" THEN b.micro_batches
    ELSE RunBatches(CHOOSE n \in (IF b.at = "loop" THEN BatchStep(b) ELSE FinalBatch(b)) : TRUE)

MicroBatches(quantity, step_size) == RunBatches(StartBatching(quantity, step_size))

\* the quantity _execute_emergency_stop_loss_protocols hands to the ladder
\* after micro-batches that sold total_sold: its own argument
LadderQuantity(quantity, total_sold) == quantity

\* the protocols are entered and the micro-batches are built
EmergencyCall ==
    /\ liquidation.at = "idle"
    /\ liquidation' = [liquidation EXCEPT
                          !.at = "micro",
                          !.micro_batches = MicroBatches(liquidation.quantity, "0.1")]
    /\ UNCHANGED butLiquidation

(* One MARKET SELL of the micro-batch loop.  "error" is a failure other    *)
(* than Oversold (the loop continues), "oversold" ends the loop.  After    *)
(* the loop the stage succeeds when at least 80% were sold; otherwise the  *)
(* ladder is entered.                                                      *)
MicroBatchSell(outcome) ==
    /\ liquidation.at = "micro"
    /\ LET l == liquidation
           batch_quantity == l.micro_batches[l.i]
           got == IF outcome = "ok" THEN batch_quantity ELSE 0
           total_sold == l.total_sold + got
           over == outcome = "oversold" \/ l.i = Len(l.micro_batches)
           success == total_sold > 0 /\ total_sold * 10 >= l.quantity * 8
           m == [l EXCEPT !.total_sold = total_sold, !.sold = @ + got, !.free = @ - got,
                          !.i = @ + 1]
       IN /\ outcome = "ok" => batch_quantity <= l.free
          /\ liquidation' =
                IF ~over THEN m
                ELSE IF success
                THEN [m EXCEPT !.at = "done", !.micro_batch_success = TRUE, !.result = TRUE]
                ELSE [m EXCEPT !.at = "ladder", !.level = 1,
                               !.ladder_quantity = LadderQuantity(l.quantity, total_sold)]
    /\ UNCHANGED butLiquidation

(* One LIMIT SELL of the discount ladder: "filled" ends the stage with     *)
(* True, "resting" leaves the order in the book and goes on to the next    *)
(* level, "rejected" goes on as well.  After the last level the stage      *)
(* answers DiscountLadderSuccess, and only a False would start the         *)
(* progressive retries.                                                    *)
LadderOrder(outcome) ==
    /\ liquidation.at = "ladder"
    /\ LET l == liquidation
           formatted_quantity == CHOOSE q \in FormatQuantity(l.ladder_quantity, "0.1", "UNKNOWN") : TRUE
           got == IF outcome = "rejected" THEN 0 ELSE formatted_quantity
           m == [l EXCEPT !.sold = @ + got, !.free = @ - got, !.level = @ + 1,
                          !.placed = @ + (IF outcome = "rejected" THEN 0 ELSE 1)]
       IN /\ outcome # "rejected" => formatted_quantity <= l.free
          /\ liquidation' =
                IF outcome = "filled"
                THEN [m EXCEPT !.at = "done", !.discount_success = TRUE, !.result = TRUE]
                ELSE IF l.level < discount_levels THEN m
                ELSE [m EXCEPT !.at = "done",
                               !.discount_success = DiscountLadderSuccess,
                               !.retry_ran = ~DiscountLadderSuccess,
                               !.result = DiscountLadderSuccess]
    /\ UNCHANGED butLiquidation

LiquidationInit ==
    /\ quietButLiquidation
    /\ liquidation \in {[NoLiquidation EXCEPT !.quantity = q, !.free = q + x] :
                           q \in LiquidationTargets, x \in ExtraHoldings}

LiquidationNext ==
    \/ EmergencyCall
    \/ \E outcome \in {"ok", "error", "oversold"} : MicroBatchSell(outcome)
    \/ \E outcome \in {"filled", "resting", "rejected"} : LadderOrder(outcome)

LiquidationSpec == LiquidationInit /\ [][LiquidationNext]_vars

-----------------------------------------------------------------------------
(* The first step of _execute_emergency_stop_loss_protocols, with two      *)
(* brackets registered on the engine's symbol.  unlock.orders is the       *)
(* exchange's book for the symbol: the orders each bracket owns, with side *)
(* and status.  The emergency runs for the bracket unlock.of.              *)

Brackets == {"b1", "b2"}

\* the orders a bracket can have at the exchange: its entry and its exits
BracketOrders(b) == {<<b, "main">>, <<b, "sl">>, <<b, "tp">>}

OrderSide(o) == IF o[2] = "main" THEN "BUY" ELSE "SELL"

AllOrders == UNION {BracketOrders(b) : b \in Brackets}

\* the books in which every bracket holds a set of open orders
Books ==
    {[o \in AllOrders |->
         [side |-> OrderSide(o), status |-> IF o \in open THEN "NEW" ELSE "NONE"]] :
     open \in SUBSET AllOrders}

\* an entry that is still open has no exit orders yet
Sequential(book) ==
    \A b \in Brackets :
        book[<<b, "main">>].status = "NEW" =>
            book[<<b, "sl">>].status = "NONE" /\ book[<<b, "tp">>].status = "NONE"

\* get_open_orders(symbol) and the filter on side == 'SELL'
OpenSellOrders(book) == {o \in DOMAIN book : book[o].status = "NEW" /\ book[o].side = "SELL"}

\* the emergency asks for the symbol's open orders; the request may raise
GetOpenOrders(answers) ==
    /\ unlock.at = "open_orders"
    /\ unlock' = IF answers /\ OpenSellOrders(unlock.orders) # {}
                 THEN [unlock EXCEPT !.at = "cancelling",
                                     !.todo = OpenSellOrders(unlock.orders)]
                 ELSE [unlock EXCEPT !.at = "protocols"]
    /\ UNCHANGED butUnlock

\* cancel_order for one order of the list; a failure is logged
CancelSellOrder(o, ok) ==
    /\ unlock.at = "cancelling"
    /\ o \in unlock.todo
    /\ ok => unlock.orders[o].status = "NEW"
    /\ unlock' = [unlock EXCEPT
                     !.todo = @ \ {o},
                     !.orders[o].status = IF ok THEN "CANCELED" ELSE @,
                     !.cancelled = IF ok THEN @ \cup {o} ELSE @,
                     !.at = IF unlock.todo = {o} THEN "protocols" ELSE @]
    /\ UNCHANGED butUnlock

\* the exchange fills an open order while the emergency runs
BookFill(o) ==
    /\ unlock.at \in {"open_orders", "cancelling"}
    /\ unlock.orders[o].status = "NEW"
    /\ unlock' = [unlock EXCEPT !.orders[o].status = "FILLED"]
    /\ UNCHANGED butUnlock

\* the emergency starts for a bracket whose entry is filled
UnlockInit ==
    /\ quietButUnlock
    /\ \E b \in Brackets :
         \E book \in {k \in Books : Sequential(k) /\ k[<<b, "main">>].status = "NONE"} :
            unlock = [NoUnlock EXCEPT !.of = b, !.at = "open_orders", !.orders = book]

UnlockNext ==
    \/ \E answers \in BOOLEAN : GetOpenOrders(answers)
    \/ \E o \in AllOrders, ok \in BOOLEAN : CancelSellOrder(o, ok)
    \/ \E o \in AllOrders : BookFill(o)

UnlockSpec == UnlockInit /\ [][UnlockNext]_vars

-----------------------------------------------------------------------------
(* _monitor_bracket_position and _execute_bracket_exit for a bracket that  *)
(* place_bracket_buy_order registered with bracket_monitoring (entry 3,    *)
(* stop loss 2, take profit 4).  software.main is the status of the main   *)
(* order at the exchange, software.status what the running tick read, and  *)
(* software.sold lists, for each MARKET SELL of the bracket's full         *)
(* quantity, the status the main order had when the sell was submitted.    *)

\* the test that lets a tick go on to the price check
MainOpenOrFilled(status) == status \in {"FILLED", "PARTIALLY_FILLED"}

\* the exit a price asks for
ExitFor(current_price, stop_loss_price, take_profit_price) ==
    IF current_price <= stop_loss_price THEN "STOP_LOSS"
    ELSE IF current_price >= take_profit_price THEN "TAKE_PROFIT"
    ELSE None

\* the exchange moves the main order on
MainOrderMoves(s) ==
    /\ software.main \in {"NEW", "PARTIALLY_FILLED"}
    /\ s \in {"PARTIALLY_FILLED", "FILLED"} \cup Terminal
    /\ s # software.main
    /\ software' = [software EXCEPT !.main = s]
    /\ UNCHANGED butSoftware

\* get_order_status(order_id) at the top of the tick
BracketStatusPoll(answers) ==
    /\ software.at = "idle"
    /\ software.registered
    /\ Len(software.sold) < MaxSells
    /\ software' = IF answers /\ MainOpenOrFilled(software.main)
                   THEN [software EXCEPT !.at = "price", !.status = software.main]
                   ELSE [software EXCEPT !.status = None]
    /\ UNCHANGED butSoftware

\* get_ticker_price and the two triggers; 0 is an answer without a price
BracketPrice(answers, current_price) ==
    /\ software.at = "price"
    /\ LET exit_type == ExitFor(current_price, 2, 4) IN
       software' = IF answers /\ current_price > 0 /\ exit_type # None
                   THEN [software EXCEPT !.at = "exit", !.exit_type = exit_type]
                   ELSE [software EXCEPT !.at = "idle"]
    /\ UNCHANGED butSoftware

\* _execute_bracket_exit: the MARKET SELL of position['quantity']
BracketExit(dry_run, accept) ==
    /\ software.at = "exit"
    /\ software' =
         IF dry_run
         THEN [software EXCEPT !.at = "idle", !.registered = FALSE]
         ELSE [software EXCEPT !.at = "idle",
                               !.sold = Append(@, software.main),
                               !.registered = ~accept]
    /\ UNCHANGED butSoftware

SoftwareInit ==
    /\ quietButSoftware
    /\ software = [NoSoftware EXCEPT !.registered = TRUE, !.main = "NEW"]

SoftwareNext ==
    \/ \E s \in OrderStatus : MainOrderMoves(s)
    \/ \E answers \in BOOLEAN : BracketStatusPoll(answers)
    \/ \E answers \in BOOLEAN, current_price \in 0..MaxPrice :
          BracketPrice(answers, current_price)
    \/ \E dry_run \in BOOLEAN, accept \in BOOLEAN : BracketExit(dry_run, accept)

SoftwareSpec == SoftwareInit /\ [][SoftwareNext]_vars

-----------------------------------------------------------------------------
(* Placement calls that overlap.  place_sequential_bracket_buy_order and   *)
(* place_limit_buy_order have the same shape: the quota check              *)
(* (_can_place_order, which runs _reset_daily_counters) is followed by the *)
(* await of the client's request, and daily_order_count += 1 comes after   *)
(* the answer.  While one call is suspended in its request the event loop  *)
(* runs the other.  last_reset_date and daily_order_count are the engine's *)
(* fields; accepted counts the entry orders the exchange took, per date of *)
(* the call.                                                               *)

\* cap on the placement calls followed
MaxPlacements == 3

\* _reset_daily_counters on the counters in o
Reset(o, today) ==
    IF today # o.last_reset_date
    THEN [o EXCEPT !.daily_order_count = 0, !.last_reset_date = today]
    ELSE o

\* the call of coroutine c up to its first await of the client: the window
\* is open, the quota check runs, and the request is sent if it passes
QuotaCheck(c, today) ==
    /\ overlap.at[c] = "idle"
    /\ overlap.calls < MaxPlacements
    /\ today >= overlap.last_reset_date
    /\ LET o == Reset(overlap, today)
           can_place == o.daily_order_count < max_orders_per_day
       IN overlap' = [o EXCEPT !.calls = @ + 1,
                               !.date[c] = today,
                               !.at[c] = IF can_place THEN "awaiting" ELSE "idle"]
    /\ UNCHANGED butOverlap

\* the exchange answers the entry order of coroutine c, and the call ends
EntryAnswer(c, accept) ==
    /\ overlap.at[c] = "awaiting"
    /\ overlap' = IF accept
                  THEN [overlap EXCEPT !.daily_order_count = @ + 1,
                                       !.accepted[overlap.date[c]] = @ + 1,
                                       !.at[c] = "idle"]
                  ELSE [overlap EXCEPT !.at[c] = "idle"]
    /\ UNCHANGED butOverlap

OverlapInit == quietButOverlap /\ overlap = NoOverlap

OverlapNext ==
    \/ \E c \in Coroutines, today \in 1..MaxDay : QuotaCheck(c, today)
    \/ \E c \in Coroutines, accept \in BOOLEAN : EntryAnswer(c, accept)

OverlapSpec == OverlapInit /\ [][OverlapNext]_vars

GateSpec == GateInit /\ [][GateNext]_vars

-----------------------------------------------------------------------------
(* place_limit_buy_order and place_limit_sell_order(price).  Both pass the *)
(* trading window and the quota first; the sell also stops when the        *)
(* registry holds max_orders_per_day positions.  dry_run returns a made-up *)
(* order.  Otherwise the order goes out with an integrated stop loss       *)
(* ("integrated"), and when that fails as a plain LIMIT order ("plain");   *)
(* either way the order is counted and a position is registered under the  *)
(* order id (by the operation itself, or by _setup_stop_loss).  When both  *)
(* fail the exception is raised again.                                     *)

LimitSides == {"BUY", "SELL"}

\* the position a limit order is registered under its order id with
LimitPosition(side, p, integrated) ==
    [entry_price |-> p, side |-> side, integrated_stop_loss |-> integrated]

\* what the gates of a limit order answer
LimitGate(side, open, today) ==
    IF Gate(open, today) = "ok" /\ side = "SELL"
                                /\ Cardinality(DOMAIN positions) >= max_orders_per_day
    THEN "positions"
    ELSE Gate(open, today)

PlaceLimitOrder(side, p, open, today, dry_run, outcome) ==
    /\ pc = "idle"
    /\ today >= last_reset_date
    /\ nextOrderId <= MaxBrackets
    /\ LET sent == LimitGate(side, open, today) = "ok" /\ ~dry_run
           accepted == sent /\ outcome # "failed"
       IN
       /\ submission' = Submission("limit_" \o side, open, today, LimitGate(side, open, today),
                                   p, 0, 0, sent, accepted)
       /\ IF ~open \/ last_reset_date = 0
          THEN UNCHANGED <<engineVars, nextOrderId>>
          ELSE /\ last_reset_date' = today
               /\ IF accepted
                  THEN /\ daily_order_count' = ResetCount(today) + 1
                       /\ positions' = Put(positions, ToString(nextOrderId),
                                           LimitPosition(side, p, outcome = "integrated"))
                       /\ nextOrderId' = nextOrderId + 1
                  ELSE /\ daily_order_count' = ResetCount(today)
                       /\ UNCHANGED <<positions, nextOrderId>>
    /\ UNCHANGED <<exOrders, price, pc, tk, trace, submitted, sells, removed,
                   cancel, clock, limiter, otherVars>>

\* the order-placing operations of the engine
PlacingNext ==
    \/ GateNext
    \/ \E side \in LimitSides, p \in EntryPrices, open \in BOOLEAN, today \in 1..MaxDay,
          dry_run \in BOOLEAN, outcome \in {"integrated", "plain", "failed"} :
          PlaceLimitOrder(side, p, open, today, dry_run, outcome)

PlacingSpec == GateInit /\ [][PlacingNext]_vars

\* the same with cancel_order calls
CancelNext ==
    \/ Next
    \/ \E order_id \in 1..MaxBrackets, ok \in BOOLEAN : CancelOrder(order_id, ok)

CancelSpec == Init /\ [][CancelNext]_vars

TypeOK ==
    /\ pc \in {"idle", "done", "w_status", "a_sl", "a_sl_simple", "a_tp_price",
               "a_tp_limit", "p_price", "p_sl_status", "p_sl_canceltp",
               "p_swsl_cancel", "p_swsl_sleep", "p_swsl_sell", "p_emergency",
               "p_emg_canceltp", "p_tp_status", "p_tp_cancelsl", "p_swtp_sell",
               "p_swtp_cancelsl", "p_end"}
    /\ Cardinality(DOMAIN positions) <= 1
    /\ sells \in 0..MaxSells
    /\ price \in 1..MaxPrice

-----------------------------------------------------------------------------
(* Reading the record of the running tick *)

Has(e) == \E i \in DOMAIN trace : trace[i] = e

Before(a, b) == \E i, j \in DOMAIN trace : i < j /\ trace[i] = a /\ trace[j] = b

CountIn(S) == Cardinality({i \in DOMAIN trace : trace[i] \in S})

\* what the stop-loss section of a protected tick can do
SlSection ==
    {"STATUS_SL", "EXIT_NATIVE_SL", "SL_TO_SOFTWARE", "UNLOCK_TP_OK",
     "UNLOCK_TP_FAILED", "SLEEP", "REQ_SELL_SL", "EXIT_SW_SL", "SELL_SL_OVERSOLD",
     "SELL_SL_FAILED", "EMERGENCY", "EXIT_EMERGENCY", "EMERGENCY_FAILED"}

\* what the take-profit section of a protected tick can do
TpSection == {"STATUS_TP", "EXIT_NATIVE_TP", "REQ_SELL_TP", "EXIT_SW_TP", "SELL_TP_FAILED"}

\* the exits: a native order seen FILLED, or a closing sell accepted
Exits == {"EXIT_NATIVE_SL", "EXIT_SW_SL", "EXIT_EMERGENCY", "EXIT_NATIVE_TP", "EXIT_SW_TP"}

\* everything that sets position_closed
Closers == Exits \cup {"SELL_SL_FAILED"}

\* the requests that sell the position
ClosingOrders == {"REQ_SELL_SL", "REQ_SELL_TP", "EMERGENCY"}

\* the changes of the bracket's state
StateChanges == {"main_filled", "protected", "DEL_REJECTED", "DEL_CLOSED"}

IsStateChange(e) == e \in StateChanges

Registered == tk.key \in DOMAIN positions

-----------------------------------------------------------------------------
-----------------------------------------------------------------------------
-----------------------------------------------------------------------------
(* C3: in one tick at most one exit closes the bracket, and once the       *)
(* bracket is closed no later check of that tick submits a closing order.  *)
C3_OneExitPerTick ==
    /\ CountIn(Closers) <= 1
    /\ \A i, j \in DOMAIN trace :
          (i < j /\ trace[i] \in Closers) => trace[j] \notin ClosingOrders \cup Closers

\* the native stop loss closed the bracket in a tick in which the native
\* take profit was FILLED as well
C3_Witness ==
    /\ pc = "done"
    /\ Has("EXIT_NATIVE_SL")
    /\ exOrders.tp = "FILLED"
    /\ exOrders.sl = "FILLED"

-----------------------------------------------------------------------------
\* the steps of place_protective_orders_after_fill
ArmingSteps == {"a_sl", "a_sl_simple", "a_tp_price", "a_tp_limit"}

ArmingStep ==
    \/ \E r \in {"accept", "invalid type", "other error"} : A_StopLossLimit(r)
    \/ \E accept \in BOOLEAN : A_StopLossSimple(accept)
    \/ \E cp \in 0..MaxPrice : A_TpPrice(cp)
    \/ \E accept \in BOOLEAN : A_TpLimit(accept)

(* C4: a bracket is in main_filled only while the tick that saw the fill   *)
(* is placing the protective orders, every step of which can be taken;     *)
(* that tick ends with the bracket in protected, whatever was refused, and *)
(* a side without an order on the exchange is under software monitoring.   *)
C4_FilledReachesProtected ==
    /\ \A k \in DOMAIN positions :
          positions[k].status = "main_filled"
              => pc \in ArmingSteps /\ tk.key = k /\ ENABLED ArmingStep
    /\ (pc = "done" /\ Has("main_filled"))
          => /\ Registered
             /\ Pos.status = "protected"
             /\ exOrders.sl = "NONE"
                   => Pos.software_stop_loss /\ Pos.stop_loss_order_id = None
             /\ exOrders.tp = "NONE" => Pos.take_profit_order_id = None

\* both native placements were refused and the tick has ended
C4_Witness ==
    /\ pc = "done"
    /\ Has("main_filled")
    /\ submitted = {"SL", "TP"}
    /\ exOrders.sl = "NONE"
    /\ exOrders.tp = "NONE"

-----------------------------------------------------------------------------
\* the mechanism the protected branch applies to each side of position p
SlNative(p) == p.stop_loss_order_id # None /\ ~p.software_stop_loss
SlSoftware(p) == p.software_stop_loss
TpNative(p) == p.take_profit_order_id # None
TpSoftware(p) == p.take_profit_order_id = None

-----------------------------------------------------------------------------
(* C6 as stated: when the software stop-loss MARKET SELL fails with an     *)
(* error that is not an oversold error, the bracket is not removed from    *)
(* the registry: it stays in protected for the next tick.                  *)
C6_Stated == Has("SELL_SL_FAILED") => ~Has("DEL_CLOSED")

-----------------------------------------------------------------------------
(* C7: a tick that sees the main order CANCELED, REJECTED or EXPIRED       *)
(* removes the bracket, no protective or closing order was placed for it,  *)
(* and the monitor takes no further step for a removed key.                *)
C7_DeadMainRemoved ==
    /\ \A s \in Terminal :
          Has("MAIN_SEEN_" \o s)
              => /\ ~Registered
                 /\ tk.key \in removed
                 /\ submitted = {}
                 /\ sells = 0
                 /\ exOrders.sl = "NONE"
                 /\ exOrders.tp = "NONE"
    /\ tk.key \in removed => pc = "done"

\* the tick saw the main order EXPIRED
C7_Witness == Has("MAIN_SEEN_EXPIRED")

-----------------------------------------------------------------------------
(* C8: an order is placed for a bracket only once its main order is FILLED *)
(* and the monitor has taken it out of waiting_for_fill; a tick that sees  *)
(* the main order NEW or PARTIALLY_FILLED places nothing and leaves the    *)
(* bracket as it was registered.                                           *)
C8_NothingBeforeFill ==
    /\ (submitted # {} \/ sells > 0 \/ exOrders.sl # "NONE" \/ exOrders.tp # "NONE")
          => /\ exOrders.main = "FILLED"
             /\ \A k \in DOMAIN positions : positions[k].status # "waiting_for_fill"
    /\ \A s \in {"NEW", "PARTIALLY_FILLED"} :
          Has("MAIN_SEEN_" \o s)
              => /\ submitted = {}
                 /\ Registered
                 /\ Pos = NewPosition(Pos.order_id, Pos.entry_price, Pos.stop_loss_price,
                                      Pos.take_profit_price)

\* a tick saw the main order PARTIALLY_FILLED and has ended
C8_Witness == pc = "done" /\ Has("MAIN_SEEN_PARTIALLY_FILLED")

-----------------------------------------------------------------------------
\* the order of the states of a registered bracket
Rank(status) ==
    CASE status = "waiting_for_fill" -> 1
      [] status = "main_filled" -> 2
      [] status = "protected" -> 3

(* C9: the status of a bracket never moves back; a bracket leaves the      *)
(* registry from waiting_for_fill or from protected only; a removed key is *)
(* never registered again, and the monitor runs no step for a key that is  *)
(* not registered.                                                         *)
C9_ForwardOnly ==
    [][ /\ \A k \in DOMAIN positions :
              IF k \in DOMAIN positions'
              THEN Rank(positions'[k].status) >= Rank(positions[k].status)
              ELSE /\ positions[k].status \in {"waiting_for_fill", "protected"}
                   /\ k \in removed'
        /\ \A k \in DOMAIN positions' \ DOMAIN positions :
              k \notin removed /\ positions'[k].status = "waiting_for_fill"
        /\ \A k \in removed : k \in removed' /\ k \notin DOMAIN positions'
        /\ pc' \notin {"idle", "done"} => tk'.key \in DOMAIN positions'
      ]_vars

\* one bracket was removed and the next one is protected
C9_Witness ==
    /\ removed # {}
    /\ \E k \in DOMAIN positions : positions[k].status = "protected"

-----------------------------------------------------------------------------
(* C10 as stated: no tick changes the state of the bracket more than once. *)
C10_Stated == CountIn(StateChanges) <= 1

(* C10: the tick that sees the main order FILLED changes the state twice,  *)
(* to main_filled and on to protected; every other tick changes it at most *)
(* once.                                                                   *)
C10_TwoChangesOnFill ==
    LET changes == SelectSeq(trace, IsStateChange) IN
    /\ Len(changes) <= 1 \/ changes = <<"main_filled", "protected">>
    /\ (pc = "done" /\ Has("MAIN_SEEN_FILLED")) => changes = <<"main_filled", "protected">>
    /\ ~Has("MAIN_SEEN_FILLED") => Len(changes) <= 1

\* the tick that saw the fill has ended, after real protective requests
C10_Witness ==
    /\ pc = "done"
    /\ Has("MAIN_SEEN_FILLED")
    /\ Has("REQ_TP_LIMIT")
    /\ Registered
    /\ Pos.status = "protected"

-----------------------------------------------------------------------------
(* C11 as stated: when the software take profit fires for a bracket that   *)
(* has a stop-loss order id, the cancel of that stop-loss order is         *)
(* requested before the closing MARKET SELL is submitted.                  *)
C11_Stated ==
    (Has("REQ_SELL_TP") /\ tk.sl_id # None)
        => (Before("CANCEL_SL_OK", "REQ_SELL_TP") \/ Before("CANCEL_SL_FAILED", "REQ_SELL_TP"))

-----------------------------------------------------------------------------
\* the steps of the software stop loss between its trigger and its sell
SwSlSteps == {"p_swsl_cancel", "p_swsl_sleep", "p_swsl_sell"}

(* C12: a tick that reads the native stop-loss order CANCELED, REJECTED or *)
(* EXPIRED turns the software flag on and leaves the status protected; the *)
(* bracket leaves the registry in that tick only if the take profit closes *)
(* it.  In a tick that starts with the flag on and gets a price, the       *)
(* comparison price <= stop price is made: at or below the stop the tick   *)
(* goes on to the stop-loss MARKET SELL.                                   *)
C12_DowngradeToSoftware ==
    /\ Has("SL_TO_SOFTWARE")
          => IF Registered
             THEN Pos.status = "protected" /\ Pos.software_stop_loss
             ELSE Has("EXIT_NATIVE_TP") \/ Has("EXIT_SW_TP")
    /\ (tk.sw /\ Registered) => Pos.software_stop_loss
    /\ ( /\ tk.status = "protected"
         /\ tk.sw
         /\ tk.cp # 0
         /\ Registered
         /\ tk.cp <= Pos.stop_loss_price
         /\ pc \notin SwSlSteps )
          => Has("REQ_SELL_SL")

\* a bracket whose native stop loss was downgraded sells on the software
\* trigger in a later tick
C12_Witness == tk.sw /\ tk.sl_id # None /\ Has("REQ_SELL_SL")

-----------------------------------------------------------------------------
(* C13: a tick that sees a native exit order FILLED requests the cancel of *)
(* the sibling order if the sibling has an order id, and has removed the   *)
(* bracket from the registry when it ends, whether that cancel succeeded   *)
(* or failed.                                                              *)
C13_NativeFillCloses ==
    /\ (pc = "done" /\ Has("EXIT_NATIVE_SL"))
          => /\ ~Registered
             /\ tk.key \in removed
             /\ Has("DEL_CLOSED")
             /\ tk.tp_id # None
                   => \/ Before("EXIT_NATIVE_SL", "CANCEL_TP_OK")
                      \/ Before("EXIT_NATIVE_SL", "CANCEL_TP_FAILED")
    /\ (pc = "done" /\ Has("EXIT_NATIVE_TP"))
          => /\ ~Registered
             /\ tk.key \in removed
             /\ Has("DEL_CLOSED")
             /\ tk.sl_id # None
                   => \/ Before("EXIT_NATIVE_TP", "CANCEL_SL_OK")
                      \/ Before("EXIT_NATIVE_TP", "CANCEL_SL_FAILED")

\* the native take profit filled, the cancel of the stop loss failed, and
\* the tick has ended
C13_Witness == pc = "done" /\ Has("EXIT_NATIVE_TP") /\ Has("CANCEL_SL_FAILED")

-----------------------------------------------------------------------------
(* C14 as stated: after cancel_order was called for a bracket that is in   *)
(* protected, the bracket is no longer in the registry.                    *)
C14_Stated ==
    cancel.status = "protected" => PositionKey(cancel.order_id) \notin DOMAIN positions

-----------------------------------------------------------------------------
(* C15: a cancel_order call for a bracket that is not in the registry      *)
(* changes nothing in the engine and nothing on the exchange, and places   *)
(* no order; so does the same call made again.                             *)
C15_CancelClosedNoOp ==
    [][ (cancel' # cancel /\ cancel'.status = "closed") => UNCHANGED mainVars ]_vars

\* cancel_order was called twice for a closed bracket while another bracket
\* is registered
C15_Witness == cancel.status = "closed" /\ cancel.calls = 2 /\ DOMAIN positions # {}


(* C16: no bracket-placing operation of the engine (sequential, simple,    *)
(* percentage) sends an entry order to the exchange while the trading      *)
(* window is closed or the daily quota is exhausted.                       *)
C16_Stated ==
    submission.sent => submission.open /\ ~submission.exhausted
\* this step is a submission through one of the two gated operations
GatedSubmission ==
    /\ submission'.op \in {"sequential", "simple"}
    /\ \/ submission' # submission
       \/ daily_order_count' # daily_order_count
       \/ last_reset_date' # last_reset_date

C18_Stated ==
    submission.sent =>
        /\ submission.stop_loss_price < submission.entry_price
        /\ submission.entry_price < submission.take_profit_price

\* the claim's reading of "the window contains t"
WindowContains(window, t) ==
    \/ window.start_time <= window.end_time
       /\ window.start_time <= t /\ t <= window.end_time
    \/ window.start_time > window.end_time
       /\ (t >= window.start_time \/ t <= window.end_time)

\* the answer is_trading_time gave for the window 22:00-06:00 at h:m
NightAnswer(h, m, open) ==
    (clock.windows = <<Night>> /\ clock.now = HM(h, m)) => clock.answer = open

(* C19: is_trading_time answers true exactly when no window is configured *)
(* or some configured window contains the current local time (same-day:   *)
(* start <= t <= end; overnight: t >= start or t <= end); for the window  *)
(* 22:00-06:00 it answers closed at 21:59, open at 22:00, 05:59 and 06:00 *)
(* and closed at 06:01.                                                    *)
C19_IsTradingTime ==
    clock.asked =>
        /\ clock.answer <=>
               \/ clock.windows = <<>>
               \/ \E i \in DOMAIN clock.windows :
                     WindowContains(clock.windows[i],
                                    LocalTime(clock.now, clock.windows[i].timezone))
        /\ NightAnswer(21, 59, FALSE)
        /\ NightAnswer(22, 0, TRUE)
        /\ NightAnswer(5, 59, TRUE)
        /\ NightAnswer(6, 0, TRUE)
        /\ NightAnswer(6, 1, FALSE)

\* the overnight window was asked about at 05:59 and answered open
C19_Witness ==
    clock.asked /\ clock.windows = <<Night>> /\ clock.now = HM(5, 59) /\ clock.answer

(* C20: every request of one client passes the rate limiter, holding its   *)
(* lock, before it is sent; the starts of two consecutive requests are at  *)
(* least 1 / rate_limit_rps apart, also with several coroutines calling;   *)
(* so N requests take at least (N - 1) / rate_limit_rps.                   *)
C20_RateLimited ==
    LET starts == limiter.starts
        N == Len(starts)
    IN /\ \A i \in 1..N : starts[i].held
       /\ \A i \in 2..N : starts[i].t - starts[i - 1].t >= MinInterval
       /\ N >= 1 => starts[N].t - starts[1].t >= (N - 1) * MinInterval

\* two requests went out exactly one interval apart, a third caller sleeps
\* inside the lock and another waits for it
C20_Witness ==
    /\ Len(limiter.starts) >= 2
    /\ limiter.starts[2].t = limiter.starts[1].t + MinInterval
    /\ limiter.holder # None
    /\ \E c \in Coroutines : limiter.at[c] = "acquire"


(* C21: a request answered with HTTP 429 is sent again exactly once after  *)
(* one backoff of 1 s; a second 429 is raised to the caller without a      *)
(* further retry.                                                          *)
C21_Stated ==
    \A i \in DOMAIN request.log :
        request.log[i].first = 429 =>
            /\ request.log[i].sends = 2
            /\ request.log[i].backoffs = 1


\* the step format_quantity works with, defaulting to the finest of the grid
GridStep(step_size, symbol) ==
    IF StepFloat(step_size) < 0 THEN PlaceUnit(FallbackPlaces(symbol))
    ELSE IF EffectiveStep(step_size, symbol) = 0 THEN 1
    ELSE EffectiveStep(step_size, symbol)

(* C22: format_quantity returns the largest multiple of the effective step *)
(* size that is not greater than the quantity (rounding toward zero), so   *)
(* the result never exceeds the raw quantity; 1.234 with step 0.1 gives    *)
(* 1.2.                                                                    *)
C22_Stated ==
    fmt.done =>
        /\ fmt.result <= fmt.quantity
        /\ fmt.result \in RoundDown(fmt.quantity, GridStep(fmt.step_size, fmt.symbol))


\* the orders of the running call that the exchange holds
OrdersPlaced ==
    {k \in {"oco", "oco_tp", "entry", "sl", "tp"} : Accepted(cascade[k])}

(* C23: place_bracket_limit_order tries a native OCO order first; whenever *)
(* that does not give a confirmed OCO order (an error, or a response       *)
(* without listOrderId) it falls back to placing the entry, then the SL,   *)
(* then the TP, and it always returns a result describing the orders it    *)
(* placed.                                                                 *)
C23_Stated ==
    cascade.at = "done" =>
        /\ cascade.oco # "ok" => cascade.entry # None
        /\ cascade.result \in {None, "raised"} => OrdersPlaced = {}


\* a side of the bracket is backed by an order the exchange accepted: the
\* stop-loss by the OCO's stop leg or the STOP_LOSS_LIMIT, the take-profit
\* by the LIMIT after the OCO or the TAKE_PROFIT_LIMIT
SlBacked == Accepted(cascade.oco) \/ Accepted(cascade.sl)
TpBacked == Accepted(cascade.oco_tp) \/ Accepted(cascade.tp)

\* the engine watches the bracket: it is in the registry
Watched == DOMAIN positions # {}

(* C24: after a simple bracket has been accepted, each of its SL and TP    *)
(* sides is backed by a native order the exchange accepted or is marked    *)
(* SOFTWARE and monitored by the client; a failed native placement never   *)
(* leaves a side without protection.                                       *)
C24_Stated ==
    (cascade.at = "done" /\ cascade.engine = "returned") =>
        /\ SlBacked \/ Watched
        /\ TpBacked \/ Watched

(* C29: one entry-placing call results in at most one entry order accepted *)
(* by the exchange, even when the exchange accepts a request but its       *)
(* response is lost and the client moves on to the next method.            *)
C29_Stated ==
    Cardinality({k \in {"oco", "entry"} : Accepted(cascade[k])}) <= 1


(* C25: every protective order placed for a BUY bracket has the bracket's  *)
(* symbol, side SELL and a quantity equal to the bracket's quantity.       *)
C25_Stated ==
    \A o \in protective.orders :
        /\ o.symbol = protective.symbol
        /\ o.side = "SELL"
        /\ o.quantity = protective.quantity


\* what remained before micro-batch i was cut
RemainingBefore(i) == batching.quantity - SumSeq(SubSeq(batching.micro_batches, 1, i - 1))

(* C28: the micro-batches built for a target quantity follow the nominal   *)
(* sizes 0.5, 0.8, 1.0, 1.5, 2.0 in that order, each capped by the         *)
(* quantity still remaining, and they sum to exactly the target quantity   *)
(* (target 5 gives 0.5, 0.8, 1.0, 1.5, 1.2).                               *)
C28_Stated ==
    batching.at = "done" =>
        /\ \A i \in DOMAIN batching.micro_batches :
              i <= Len(batch_sizes) =>
                  batching.micro_batches[i] = Min(batch_sizes[i], RemainingBefore(i))
        /\ SumSeq(batching.micro_batches) = batching.quantity


(* C26: the discount-ladder stage reports success only if at least one     *)
(* LIMIT SELL was accepted by the exchange; when all four placements are   *)
(* rejected it reports failure, so that the progressive-retry stage runs.  *)
C26_Stated ==
    (liquidation.at = "done" /\ liquidation.level > discount_levels
                             /\ liquidation.placed = 0) =>
        /\ ~liquidation.discount_success
        /\ liquidation.retry_ran

(* C27: when the micro-batches sold part of the target quantity but less   *)
(* than 80% of it, the discount ladder is invoked for the remaining unsold *)
(* quantity, not for the original target quantity.                         *)
C27_Stated ==
    (liquidation.level >= 1 /\ liquidation.total_sold > 0) =>
        liquidation.ladder_quantity = liquidation.quantity - liquidation.total_sold

(* C30: for one bracket, the total quantity of the SELL orders accepted by *)
(* the exchange during an emergency liquidation (micro-batch market sells, *)
(* ladder LIMIT orders left resting, retry sells) never exceeds the        *)
(* bracket's quantity.                                                     *)
C30_Stated == liquidation.sold <= liquidation.quantity


-----------------------------------------------------------------------------
(* C31: the two exits of one bracket are mutually exclusive at the         *)
(* exchange: in no reachable state has the native take-profit order filled *)
(* while a software stop-loss MARKET SELL for the same bracket has been    *)
(* submitted, the take profit filling between the monitor's price read and *)
(* the arrival of its cancel request included.                             *)
C31_Stated == ~(exOrders.tp = "FILLED" /\ Has("REQ_SELL_SL"))


-----------------------------------------------------------------------------
\* the registry keys of the brackets the exchange can accept
Keys == {PositionKey(i) : i \in 1..MaxBrackets}

\* bracket k is protected and the falling market has reached its stop
StopReached(k) ==
    /\ Falling
    /\ k \in DOMAIN positions
    /\ positions[k].status = "protected"
    /\ price <= positions[k].stop_loss_price
    /\ sells < MaxSells

(* C32: under fair scheduling of the monitor tick, once a bracket is       *)
(* protected, if from some point on the price is known and stays at or     *)
(* below its stop-loss price and the exchange accepts MARKET SELL orders   *)
(* (or fills the native stop-loss order), the bracket is eventually        *)
(* removed from the registry as closed.                                    *)
C32_EventuallyClosed == \A k \in Keys : StopReached(k) ~> (k \in removed)

\* a bracket whose stop the falling market reached has been removed
C32_Witness ==
    /\ Falling
    /\ Has("DEL_CLOSED")
    /\ Has("REQ_SELL_SL") \/ Has("EXIT_NATIVE_SL")
    /\ tk.key \in removed


-----------------------------------------------------------------------------
(* C34: every engine field read by the quota check and by the position     *)
(* cleanup (last_reset_date, stop_loss_orders) exists once the engine is   *)
(* constructed, so that the quota check of a submission made while the     *)
(* window is open answers with a boolean (the order may be placed, or the  *)
(* quota is exhausted) instead of raising.                                 *)
C34_Stated ==
    /\ last_reset_date # 0
    /\ (submission.op # None /\ submission.open) => submission.quota \in {"ok", "exhausted"}


-----------------------------------------------------------------------------
-----------------------------------------------------------------------------
\* this step enters place_protective_orders_after_fill
ArmingStarts == pc' = "a_sl" /\ pc # "a_sl"

\* this step creates the protective order o at the exchange
Creates(o) == exOrders'[o] = "NEW" /\ exOrders[o] # "NEW"

(* C35: for each bracket the protective-order placement is invoked at most *)
(* once over the bracket's life: it is entered only from waiting_for_fill, *)
(* with no stop-loss or take-profit request made for the bracket before,   *)
(* and the same step takes the bracket out of waiting_for_fill; a          *)
(* stop-loss or take-profit order is created only where the bracket has    *)
(* none, so no duplicate exists, however often the main order is reported  *)
(* FILLED and whether or not a request of the placement is refused.        *)
C35_ArmedOnce ==
    [][/\ ArmingStarts =>
            /\ Pos.status = "waiting_for_fill"
            /\ submitted \cap {"SL", "TP"} = {}
            /\ positions'[tk.key].status # "waiting_for_fill"
       /\ \A o \in {"sl", "tp"} :
            Creates(o) => exOrders[o] = "NONE" /\ pc \in ArmingSteps]_vars

\* a later tick of an armed bracket has ended with the main order still
\* reported FILLED, after a stop-loss request of the placement was refused
C35_Witness ==
    /\ pc = "done"
    /\ tk.status = "protected"
    /\ exOrders.main = "FILLED"
    /\ tk.sw /\ "SL" \in submitted


-----------------------------------------------------------------------------
\* the tick leaves the step it stands at
Leaves(step) == pc = step /\ pc' # step

(* C36: protective arming and exit orders of a registered bracket are      *)
(* executed whatever the trading window and the daily quota say: a tick    *)
(* that stands at the stop-loss request of the arming, at a software       *)
(* stop-loss or take-profit MARKET SELL or at the emergency liquidation    *)
(* submits that order when it goes on, and uses up none of the quota.      *)
C36_ExitsNotGated ==
    [][/\ Leaves("a_sl") => "SL" \in submitted'
       /\ Leaves("a_tp_limit") => "TP" \in submitted'
       /\ (Leaves("p_swsl_sell") \/ Leaves("p_swtp_sell")) =>
              sells' = sells + 1 /\ "MARKET_SELL" \in submitted'
       /\ Leaves("p_emergency") => "EMERGENCY_SELL" \in submitted'
       /\ pc' # pc => UNCHANGED <<daily_order_count, last_reset_date>>]_vars

\* the software stop loss sold and closed a bracket on a date whose quota
\* was used up by the bracket's own entry
C36_Witness ==
    /\ daily_order_count >= max_orders_per_day
    /\ Has("EXIT_SW_SL")
    /\ Has("DEL_CLOSED")


-----------------------------------------------------------------------------
\* this step is a call of an order-placing operation made with dry_run set
DryRunCall ==
    \/ \E entry \in EntryPrices, sl \in StopPrices, tp \in TargetPrices,
          open \in BOOLEAN, today \in 1..MaxDay, accept \in BOOLEAN :
          \/ SubmitSequentialBracket(entry, sl, tp, open, today, TRUE, accept)
          \/ PlaceSimpleBracket(entry, sl, tp, open, today, TRUE, accept)
    \/ \E p \in PctPrices, sl_pct \in Percentages, tp_pct \in Percentages,
          open \in BOOLEAN, today \in 1..MaxDay,
          bracket_type \in {"integrated", "oco", "software", "failed"} :
          PlaceBracketBuy(p, sl_pct, tp_pct, open, today, TRUE, bracket_type)
    \/ \E side \in LimitSides, p \in EntryPrices, open \in BOOLEAN, today \in 1..MaxDay,
          outcome \in {"integrated", "plain", "failed"} :
          PlaceLimitOrder(side, p, open, today, TRUE, outcome)

(* C37: while dry_run is set, the engine's order-placing operations (limit *)
(* buy and sell, percentage bracket, sequential bracket, simple bracket)   *)
(* send no order to the exchange, register no position and do not increase *)
(* the daily order count.                                                  *)
C37_DryRunInert ==
    [][DryRunCall =>
          /\ ~submission'.sent
          /\ UNCHANGED <<positions, nextOrderId, exOrders>>
          /\ daily_order_count' <= daily_order_count]_vars

\* a simple bracket with valid prices passed both gates and was not sent:
\* the call was made with dry_run set, after an order was counted
C37_Witness ==
    /\ submission.op = "simple"
    /\ submission.quota = "ok"
    /\ PricesValid(submission.entry_price, submission.stop_loss_price,
                   submission.take_profit_price)
    /\ ~submission.sent
    /\ DOMAIN positions # {}


-----------------------------------------------------------------------------
(* C38: emergency liquidation for one bracket cancels only that bracket's  *)
(* own exit orders: it never cancels a SELL order that belongs to another  *)
(* live bracket on the same symbol.                                        *)
C38_Stated == \A o \in unlock.cancelled : o[1] = unlock.of


-----------------------------------------------------------------------------
(* C39: in the software-monitored bracket path (positions with             *)
(* bracket_monitoring) a closing MARKET SELL for the full bracket quantity *)
(* is submitted only after the main order is FILLED, never while the main  *)
(* order is only PARTIALLY_FILLED.                                         *)
C39_Stated == \A i \in 1..Len(software.sold) : software.sold[i] = "FILLED"


-----------------------------------------------------------------------------
(* C40: if the native take-profit order of a protected bracket is reported *)
(* CANCELED, REJECTED or EXPIRED, the take-profit side falls back to       *)
(* software monitoring: the tick that polls the order in such a status     *)
(* clears the bracket's take_profit_order_id, which is what the software   *)
(* take-profit check looks at, so that a later known price >= tp_price     *)
(* still closes the bracket.                                               *)
C40_Stated ==
    [][(pc = "p_tp_status" /\ pc' # pc /\ exOrders.tp \in Terminal) =>
           /\ tk.key \in DOMAIN positions'
           /\ positions'[tk.key].take_profit_order_id = None]_vars

=============================================================================
